---- MODULE Spec2Model ----
(***************************************************************************)
(* A state-machine model of the mesh-dashboard synchronization and query   *)
(* layer: the history reader and the search scanner over the MESH-MESSAGES *)
(* stream, the MESH-MEMBERS key-value store, the publish rate limiter and  *)
(* the client's presence reconciliation.                                   *)
(*                                                                         *)
(* Strings the code inspects (message text, queries) are sequences of      *)
(* one-character strings; times are milliseconds (Date.now()) unless a     *)
(* field is documented as seconds (envelope ts).                           *)
(***************************************************************************)
EXTENDS Integers, Sequences, FiniteSets, TLC

\* ------------------------------------------------------------------ bounds
\* Longest stream content explored.
MaxLog == 4
\* Stands for max_messages: 5000 of sub.fetch (scaled so that a stream can
\* exceed it).
MaxMessages == 3
\* Stands for the page size 50 (default limit of the route, of fetchHistory
\* and of loadMore), scaled so that a channel can hold more than one page.
PageLimit == 2
\* Largest limit passed to fetchHistory directly.
MaxLimit == 3
\* Largest envelope ts (seconds) in the explored payloads.
MaxTs == 3
\* Stands for MAX_RESULTS = 100 of searchMessages (scaled so that a stream
\* can hold more matches than the results buffer).
MAX_RESULTS == 2
\* Number of clock ticks explored.
MaxTicks == 4
\* Number of membership calls explored.
MaxCalls == 3
\* Number of clock ticks explored between membership writes.
MaxJoinTicks == 2
\* Stands for RATE_LIMIT_MAX = 30 (scaled so that a sender can exceed it).
RATE_LIMIT_MAX == 2
\* Stands for MAX_MESSAGE_SIZE = 64 * 1024 (scaled so that a text can
\* exceed it).
MAX_MESSAGE_SIZE == 2
\* Number of POST send requests explored.
MaxPosts == 4
\* Number of half-window clock ticks explored by the send requests.
MaxRateTicks == 3
\* Number of presence events (KV puts and deletes, fallback messages)
\* produced by the agents.
MaxEvents == 3
\* Number of connection status events explored.
MaxStatusEvents == 3
\* Number of half-lifetime clock ticks explored by the session.
MaxSeedTicks == 3
\* Number of envelopes published on the live channel.
MaxLive == 2
\* Number of connections connectNats holds open at once.
MaxConns == 2
\* Number of members requests and seed calls started.
MaxGets == 2
\* Number of telemetry writes and publishes.
MaxTelemetry == 3
\* Heartbeat intervals that pass.
MaxBeats == 3
\* Session bridge calls, and timeout steps that pass.
MaxBridgeCalls == 2
MaxBridgeTicks == 13
\* Number of connections the server opens.
MaxServerConns == 3

\* ------------------------------------------------------- program constants
TIMEOUT_MS == 5000
FETCH_EXPIRES == 4000
RATE_LIMIT_WINDOW == 60000
NAME_MAX == 64
SEED_TTL_MS == 300000
HEARTBEAT_MS == 30000
HISTORY_TIMEOUT_MS == 10000
SEND_TIMEOUT_MS == 120000

\* ------------------------------------------------------------- the stream
\* `before` absent (undefined); not a timestamp.
NoBefore == 0 - 1

\* The payloads that may sit in the stream at the start.  kind "v1" is a
\* version-1 envelope, "v2" parses but has another version, "bad" is not
\* JSON; from is from.agent.
\* ts is in seconds (Math.floor(Date.now() / 1000)): distinct envelopes
\* can share it.
Payloads ==
    { [id |-> 1, subj |-> <<"mesh", "channel", "general">>, kind |-> "v1",
       ts |-> 1, text |-> <<"A", "b">>, from |-> <<"alice">>],
      [id |-> 2, subj |-> <<"mesh", "channel", "general">>, kind |-> "v1",
       ts |-> 2, text |-> <<"a", "B">>, from |-> <<"bob">>],
      [id |-> 3, subj |-> <<"mesh", "channel", "general">>, kind |-> "v1",
       ts |-> 2, text |-> <<"b">>, from |-> <<"alice">>],
      [id |-> 4, subj |-> <<"mesh", "channel", "general">>, kind |-> "v1",
       ts |-> 3, text |-> <<"b", "A">>, from |-> <<"bob">>],
      [id |-> 5, subj |-> <<"mesh", "channel", "general">>, kind |-> "bad",
       ts |-> 0, text |-> <<>>, from |-> <<>>],
      [id |-> 6, subj |-> <<"mesh", "channel", "general">>, kind |-> "v2",
       ts |-> 1, text |-> <<"a">>, from |-> <<"bob">>],
      [id |-> 7, subj |-> <<"mesh", "channel", "dev">>, kind |-> "v1",
       ts |-> 2, text |-> <<"a">>, from |-> <<"alice">>] }

\* Channel names and subjects are sequences of the tokens between dots.
Channels == { <<"general">>, <<"dev">> }

\* `mesh.channel.${channel}`
ChannelSubject(channel) == <<"mesh", "channel">> \o channel

Subjects == { ChannelSubject(c) : c \in Channels }

Range(s) == { s[i] : i \in 1..Len(s) }

RECURSIVE InjSeqs(_, _)
\* The sequences of at most n distinct elements of S.
InjSeqs(S, n) ==
    IF n = 0 THEN {<<>>}
    ELSE LET shorter == InjSeqs(S, n - 1)
             longest == { t \in shorter : Len(t) = n - 1 }
         IN shorter \cup
            UNION { { Append(t, e) : e \in S \ Range(t) } : t \in longest }

RECURSIVE SelectSeqBy(_, _)
\* Array.prototype.filter, for a predicate given as the set of kept values.
SelectSeqBy(s, keep) ==
    IF s = <<>> THEN <<>>
    ELSE IF Head(s) \in keep
         THEN <<Head(s)>> \o SelectSeqBy(Tail(s), keep)
         ELSE SelectSeqBy(Tail(s), keep)

Min(a, b) == IF a < b THEN a ELSE b

\* sub.fetch({ max_messages, expires }) on a consumer with filter_subject
\* subj and deliver_policy all: the first max_messages entries of the
\* subject, in stream order.
Fetched(stream, subj) ==
    LET own == SelectSeqBy(stream, { p \in Payloads : p.subj = subj })
    IN  SubSeq(own, 1, Min(Len(own), MaxMessages))

IsV1_Any(p) == TRUE

\* JSON.parse succeeded and envelope.v === 1.
IsV1(p) == p.kind = "v1"

RECURSIVE InsertByTs(_, _)
\* e placed after every element whose ts is not larger (a stable sort step).
InsertByTs(sorted, e) ==
    IF sorted = <<>> THEN <<e>>
    ELSE IF Head(sorted).ts <= e.ts
         THEN <<Head(sorted)>> \o InsertByTs(Tail(sorted), e)
         ELSE <<e>> \o sorted

RECURSIVE SortByTs(_)
\* arr.sort((a, b) => a.ts - b.ts): stable, ascending by ts.
SortByTs(s) ==
    IF s = <<>> THEN <<>>
    ELSE InsertByTs(SortByTs(SubSeq(s, 1, Len(s) - 1)), s[Len(s)])

\* arr.slice(-n): the last n elements; slice(-0) is slice(0), the whole array.
SliceLast(s, n) ==
    IF n = 0 \/ n >= Len(s) THEN s
    ELSE SubSeq(s, Len(s) - n + 1, Len(s))

\* `before ? allMessages.filter(m => m.ts < before) : allMessages`:
\* undefined and 0 are falsy.
BeforeFilter_Inclusive(all, before) ==
    IF before = NoBefore \/ before = 0 THEN all
    ELSE SelectSeqBy(all, { p \in Payloads : p.ts <= before })

BeforeFilter(all, before) ==
    IF before = NoBefore \/ before = 0 THEN all
    ELSE SelectSeqBy(all, { p \in Payloads : p.ts < before })

HasMoreOf(filtered, limit) == Len(filtered) > limit

EmptyPage == [messages |-> <<>>, hasMore |-> FALSE]

\* fetchHistory({ before, limit, channel }); err is an error thrown by the
\* stream inside the try block.
fetchHistory(stream, before, limit, channel, err) ==
    IF err THEN EmptyPage
    ELSE LET allMessages ==
                 SortByTs(SelectSeqBy(Fetched(stream, ChannelSubject(channel)),
                                      { p \in Payloads : IsV1(p) }))
             filtered == BeforeFilter(allMessages, before)
         IN  [messages |-> SliceLast(filtered, limit),
              hasMore  |-> HasMoreOf(filtered, limit)]

\* GET /api/history: `channel` of the query string is not read; limit
\* defaults to the page size.
HistoryGET(stream, before, err) ==
    fetchHistory(stream, before, PageLimit, <<"general">>, err)

\* `limit` absent from the query string.
NoLimit == 0 - 1

\* The query strings of GET /api/history: channel (<<>> when absent),
\* before and limit as decimal numbers or absent.
HistoryQueries ==
    [channel : Channels \cup {<<>>},
     before : {NoBefore} \cup (0..(MaxTs + 1)),
     limit : {NoLimit} \cup (0..MaxLimit)]

\* Where the stream fails during a history call: getNatsConnection or
\* jetstreamManager (before the try block), consumers.add / get / fetch,
\* or the iteration.
Faults == {"none", "connection", "cursor", "read"}

\* A call of fetchHistory as its caller sees it: the returned value, or a
\* rejection when the fault strikes before the try block (lines 41-43).
FetchOutcome(stream, before, limit, channel, fault) ==
    IF fault = "connection"
    THEN [threw |-> TRUE, res |-> EmptyPage]
    ELSE [threw |-> FALSE,
          res |-> fetchHistory(stream, before, limit, channel, fault # "none")]

RouteCaught_Error == [status |-> 500, body |-> EmptyPage]

\* The catch block of GET /api/history.
RouteCaught == [status |-> 200, body |-> EmptyPage]

\* GET /api/history for a signed-in user: before and limit are parsed from
\* the query string (limit defaults to 50, scaled to PageLimit), `channel`
\* is not read, so fetchHistory runs with its default channel.
HistoryRoute(stream, query, fault) ==
    LET before == query.before
        limit == IF query.limit = NoLimit THEN PageLimit ELSE query.limit
        out == FetchOutcome(stream, before, limit, <<"general">>, fault)
    IN  IF out.threw THEN RouteCaught
        ELSE [status |-> 200, body |-> out.res]

\* ------------------------------------------------------------- the search
Queries == { <<"A">>, <<"a", "b">> }

\* String.prototype.toLowerCase, on the letters of the payloads.
LowerChar(c) ==
    CASE c = "A" -> "a"
      [] c = "B" -> "b"
      [] OTHER -> c

ToLowerCase(str) == [i \in 1..Len(str) |-> LowerChar(str[i])]

\* String.prototype.includes.
Includes(str, sub) ==
    \E off \in 0..(Len(str) - Len(sub)) :
        \A k \in 1..Len(sub) : str[off + k] = sub[k]

\* const lowerQuery = query.toLowerCase()
LowerQuery(query) == ToLowerCase(query)

\* envelope.v === 1 && envelope.content?.text?.toLowerCase().includes(lowerQuery)
Matches(p, lowerQuery) ==
    IsV1(p) /\ Includes(ToLowerCase(p.text), lowerQuery)

EmptySearch == [results |-> <<>>, total |-> 0, truncated |-> FALSE]

\* -------------------------------------------------------- the members KV
Names == { <<"alice">>, <<"bob">> }

MemberTypes == {"human", "ai"}

\* `${channel}.${name}`
MemberKey(channel, name) == channel \o name

\* The channel names of membership requests: those of the page, and one
\* with a dot in it ('general.dev'); the route only asks for a non-empty
\* string.
MemberChannels == Channels \cup { <<"general", "dev">> }

MemberKeys == { MemberKey(c, n) : c \in MemberChannels, n \in Names }

\* key.startsWith(channel + '.'): the channel's tokens, then at least one more.
StartsWithPrefix(key, channel) ==
    /\ Len(key) > Len(channel)
    /\ SubSeq(key, 1, Len(channel)) = channel

\* No entry under a key (kv.get gives null, or a delete marker with an
\* empty value).
Absent == [name |-> <<>>, type |-> "none", joinedAt |-> 0 - 1]

RECURSIVE SetToSeq(_)
\* The elements of a finite set, in some fixed order.
SetToSeq(S) ==
    IF S = {} THEN <<>>
    ELSE LET x == CHOOSE y \in S : TRUE
         IN  <<x>> \o SetToSeq(S \ {x})

Procs == {"p1", "p2"}

\* ------------------------------------------------------------ POST send
\* locals.user of a request; NoUser is an unauthenticated request.
Users ==
    { [email |-> "alice@x", name |-> "alice"],
      [email |-> "bob@x", name |-> "b.o b"] }

NoUser == [email |-> "", name |-> ""]

Emails == { u.email : u \in Users }

\* The request bodies explored: a valid one, one without text, one with a
\* text over the size limit, one with a subject outside mesh.channel.
Bodies ==
    { [text |-> <<"a">>, subject |-> <<"mesh", "channel", "general">>],
      [text |-> <<>>, subject |-> <<"mesh", "channel", "general">>],
      [text |-> <<"a", "b", "a">>, subject |-> <<"mesh", "channel",
                  "general">>],
      [text |-> <<"a">>, subject |-> <<"mesh", "dm", "bob">>] }

\* The characters of the explored names that /[a-zA-Z0-9_-]/ matches.
NameChars == {"a", "b", "c", "e", "g", "i", "l", "o", "p", "_", "-"}

RECURSIVE StripName(_)
\* name.replace(/[^a-zA-Z0-9_-]/g, '')
StripName(str) ==
    IF Len(str) = 0 THEN ""
    ELSE LET c == SubSeq(str, 1, 1)
         IN  (IF c \in NameChars THEN c ELSE "")
                 \o StripName(SubSeq(str, 2, Len(str)))

\* (locals.user.name || 'gp').replace(...).slice(0, 64) || 'gp'
SenderName(name) ==
    LET stripped == StripName(IF name = "" THEN "gp" ELSE name)
        sliced == SubSeq(stripped, 1, Min(Len(stripped), NAME_MAX))
    IN  IF sliced = "" THEN "gp" ELSE sliced

\* No entry of rateLimitMap for the sender.
NoEntry == [count |-> 0, resetAt |-> 0 - 1]

\* ---------------------------------------------------- the client session
\* Agent names: the keys of the presence and telemetry buckets, the last
\* token of mesh.presence.<agent> and the keys of the reconciled maps.
Agents == {"a", "b"}

\* userName of connectNats; "" when it is not given.
UserNames == {"", "b"}

\* The JSON values agents put under a presence key; "" is a missing field.
PresenceData ==
    { [name |-> "", status |-> "online"],
      [name |-> "", status |-> "offline"],
      [name |-> "b", status |-> ""] }

\* The status field of a fallback message; "" is a missing field.
FallbackStatuses == {"online", "offline"}

\* A key without a value in a bucket, and an agent without an entry in a map.
NoValue == [name |-> "", status |-> "none", seq |-> 0 - 1]

NoInfo == [agent |-> "", status |-> "none", seq |-> 0 - 1]

\* a || b on strings.
OrElse(a, b) == IF a = "" THEN b ELSE a

\* The PresenceInfo built from a KV value (snapshot and watch): agent is
\* data.name || key, status is data.status || 'online'.  seq names the
\* event the value came from; type and lastSeen are left out.
InfoOfKv(key, data) ==
    [agent |-> OrElse(data.name, key), status |-> OrElse(data.status, "online"),
     seq |-> data.seq]

\* The PresenceInfo built from a message on mesh.presence.<agent>: agent is
\* the last token of the subject.
InfoOfMsg(msg) ==
    [agent |-> OrElse(msg.subject[Len(msg.subject)], "unknown"),
     status |-> OrElse(msg.status, "online"), seq |-> msg.seq]

\* presence.update of the snapshot: next.set(info.agent, info).
ApplySnapshot(map, info) == [map EXCEPT ![info.agent] = info]

\* presence.update of the watch loop.
ApplyWatch(map, entry) ==
    IF entry.op \in {"DEL", "PURGE"}
    THEN [map EXCEPT ![entry.key] = NoInfo]
    ELSE LET info == InfoOfKv(entry.key, entry.value)
         IN  IF info.status = "offline"
             THEN [map EXCEPT ![info.agent] = NoInfo]
             ELSE [map EXCEPT ![info.agent] = info]

ApplyFallback_KeepOffline(map, msg) ==
    [map EXCEPT ![InfoOfMsg(msg).agent] = InfoOfMsg(msg)]

\* presence.update of the presenceSub loop.
ApplyFallback(map, msg) ==
    LET info == InfoOfMsg(msg)
    IN  IF info.status = "offline"
        THEN [map EXCEPT ![info.agent] = NoInfo]
        ELSE [map EXCEPT ![info.agent] = info]

\* Telemetry values in the bucket: a lean summary (no sessions field;
\* sessionCount may be missing, written 0 - 1) or a full payload.
NoSessions == [total |-> 0 - 1, active |-> 0 - 1]

TelemetryData ==
    { [agent |-> "a", sessions |-> NoSessions, sessionCount |-> 2,
       activeCount |-> 0 - 1, ts |-> 1],
      [agent |-> "b", sessions |-> [total |-> 3, active |-> 1],
       sessionCount |-> 0 - 1, activeCount |-> 0 - 1, ts |-> 2] }

NoTelemetry == [agent |-> "", sessions |-> NoSessions, ts |-> 0 - 1]

\* x ?? 0
OrZero(x) == IF x = 0 - 1 THEN 0 ELSE x

\* raw.sessions ? raw : { agent, ..., sessions: { total, active, list } }
ToPayload(raw) ==
    IF raw.sessions # NoSessions THEN raw
    ELSE [agent |-> raw.agent,
          sessions |-> [total |-> OrZero(raw.sessionCount),
                        active |-> OrZero(raw.activeCount)],
          ts |-> raw.ts]

\* The subscriptions connectNats opens, in its order.
SubNames == <<"channel", "system", "presence", "telemetry", "receipt">>

\* A KV task that has not been started.
IdleTask == [pc |-> "off", iter |-> <<>>, keys |-> <<>>, iterOpen |-> FALSE,
             getWhileOpen |-> FALSE]

VARIABLES
    log,          \* the MESH-MESSAGES stream, in stream order
    histCall,     \* the last fetchHistory call: its arguments and result
    hGet,         \* the last GET /api/history: its query, fault and response
    connection,   \* server nats.ts `connection`: 0 (null) or a connection
    openConns,    \* the server's connections that are open
    connects,     \* number of connect() calls of the server that resolved
    gcCall,       \* the running getNatsConnection calls, one per request
    cMessages,    \* the client's `messages` store
    cHasMore,     \* +page.svelte hasMore
    cLoadingMore, \* +page.svelte loadingMore
    cOldestTs,    \* oldestTs captured by a running loadMore
    cPhase,       \* "boot" before onMount's history load, then "ready"
    cErr,         \* history: whether a history request of the client failed
    cTags,        \* the _channel tag of each entry of cMessages (<<>>: none)
    cActive,      \* the activeChannel store
    cSwitch,      \* channel of a switchChannel awaiting its fetch, or <<>>
    now,          \* Date.now(), milliseconds
    sPc,          \* searchMessages: "idle", "scan" (in the for-await loop), "done"
    sArgs,        \* searchMessages: query and subject of the call
    sPending,     \* entries of the fetch not yet delivered to the loop
    sResults,     \* results
    sTotal,       \* total
    sTruncated,   \* truncated
    sStartTime,   \* startTime
    sRet,         \* the returned { results, total, truncated }
    sTrace,       \* history: how the scan went (entries examined, how it ended)
    membersKv,    \* the MESH-MEMBERS bucket: key -> MemberInfo or Absent
    mProc,        \* the running membership calls, one per server request
    mCalls,       \* number of membership calls started
    mSettled,     \* history: keys added by a completed call, not deleted since
    rateLimitMap, \* POST send: email -> { count, resetAt } or NoEntry
    postCount,    \* number of POST send requests handled
    postStatus,   \* status of the last response of POST send (0: none yet)
    mSpawned,     \* addChannelMember calls started by POST send, not yet run
    rlTrace,      \* history: per sender, the attempts of the current window
    cStatus,      \* the connectionStatus store
    cConn,        \* nc: "none", "connecting" (awaiting connect) or "open"
    cUser,        \* userName of the connectNats call
    cSubs,        \* subs, in push order
    cHeartbeat,   \* whether presenceInterval is set
    presenceKv,   \* the MESH-PRESENCE bucket: key -> value or NoValue
    presence,     \* the presence store: agent -> PresenceInfo or NoInfo
    presenceCache, \* localStorage mesh-presence-cache
    pTask,        \* the presence KV task of connectNats
    pWatchQ,      \* watch entries of MESH-PRESENCE not yet delivered
    pSubQ,        \* messages of presenceSub not yet delivered
    telemetryKv,  \* the MESH-TELEMETRY bucket: key -> value or NoTelemetry
    telemetry,    \* the telemetry store: agent -> payload or NoTelemetry
    telemetryCache, \* localStorage mesh-telemetry-cache
    tTask,        \* the telemetry KV task of connectNats
    tPersist,     \* whether the telemetry store is saved on every update
    evGen,        \* number of presence events the agents have produced
    pHist,        \* history: per map key, the updates applied to it
    pOrder,       \* history: live updates before / under the snapshot
    cLink,        \* transport of nc: "none", "up" or "down" (reconnecting)
    srvUp,        \* whether the NATS server is reachable
    seedExpiresAt, \* seedExpiresAt
    cSeed,        \* the credential held by nc's authenticator
    cMonPc,       \* status monitor: "idle" or "fetch" (awaiting fetchSeed)
    cEvQ,         \* events of nc.status() not yet read by the monitor
    cTrace,       \* history: failures, explicit disconnect, last (re)connect
    cChanQ,       \* messages of the channelSub loops not yet delivered
    cPublished,   \* history: payloads published on mesh.channel.general
    rReq,         \* the members requests and seed calls in progress
    seeded,       \* the channels of `seeded` (members route)
    rGets,        \* number of members requests and seed calls started
    tWatchQ,      \* entries of the telemetry watch not yet delivered
    tSubQ,        \* messages of telemetrySub not yet delivered
    tGen,         \* number of telemetry writes and publishes so far
    tHist,        \* history: per agent, the update applied last
    cTimers,      \* the setInterval timers of publishPresence, oldest first
    hbTrace,      \* history: the heartbeats published
    bReq,         \* the session bridge call in progress or last finished
    bCalls        \* number of session bridge calls started

connVars == <<connection, openConns, connects, gcCall>>

histVars == <<histCall, hGet, connVars>>
pageVars == <<cMessages, cHasMore, cLoadingMore, cOldestTs, cPhase, cErr,
              cTags, cActive, cSwitch>>

searchVars == <<sPc, sArgs, sPending, sResults, sTotal, sTruncated, sStartTime,
                sRet, sTrace>>

memberVars == <<membersKv, mProc, mCalls, mSettled>>

rateVars == <<rateLimitMap, postCount, postStatus, mSpawned, rlTrace>>

sessionVars == <<cStatus, cConn, cUser, cSubs, cHeartbeat>>

presenceVars == <<presenceKv, presence, presenceCache, pTask, pWatchQ, pSubQ,
                  evGen, pHist, pOrder>>

telemetryVars == <<telemetryKv, telemetry, telemetryCache, tTask, tPersist,
                   tWatchQ, tSubQ, tGen, tHist>>

linkVars == <<cLink, srvUp, seedExpiresAt, cSeed, cMonPc, cEvQ, cTrace>>

feedVars == <<cChanQ, cPublished>>

routeVars == <<rReq, seeded, rGets>>

beatVars == <<cTimers, hbTrace>>

bridgeVars == <<bReq, bCalls>>

clientVars == <<sessionVars, presenceVars, telemetryVars, linkVars, feedVars>>

vars == <<log, now, histVars, routeVars, bridgeVars, beatVars, pageVars,
          searchVars, memberVars,
          rateVars, clientVars>>

\* What the actions of one component leave alone.
xHist == <<routeVars, bridgeVars, beatVars, pageVars, searchVars, memberVars,
           rateVars, clientVars>>
xPage == <<histVars, routeVars, bridgeVars, beatVars, searchVars, memberVars,
           rateVars, clientVars>>
xSearch == <<histVars, routeVars, bridgeVars, beatVars, pageVars, memberVars,
             rateVars, clientVars>>
xMembers == <<histVars, routeVars, bridgeVars, beatVars, pageVars,
              searchVars, rateVars, clientVars>>
xRate == <<histVars, routeVars, bridgeVars, beatVars, pageVars, searchVars,
           clientVars>>
xClient == <<log, now, histVars, routeVars, bridgeVars, beatVars, pageVars,
             searchVars, memberVars, rateVars,
             linkVars, feedVars>>
xConnect == <<log, now, histVars, routeVars, bridgeVars, pageVars,
              searchVars, memberVars, rateVars,
              srvUp, seedExpiresAt, cMonPc, cEvQ, feedVars>>
xLink == <<log, now, histVars, routeVars, bridgeVars, beatVars, pageVars,
           searchVars, memberVars, rateVars,
           sessionVars, presenceVars, telemetryVars, feedVars>>

NoCall == [before |-> NoBefore, limit |-> 0, channel |-> <<>>, err |-> TRUE,
           res |-> EmptyPage]

\* No history request yet.
NoGet == [query |-> [channel |-> <<>>, before |-> NoBefore, limit |-> NoLimit],
          fault |-> "none", status |-> 0, body |-> EmptyPage]

\* No getNatsConnection call runs in a place; got is the connection a
\* finished call returned (0: it threw).
IdleGet == [pc |-> "idle", got |-> 0]

HistInit ==
    /\ histCall = NoCall
    /\ hGet = NoGet
    /\ connection = 0
    /\ openConns = {}
    /\ connects = 0
    /\ gcCall = [p \in Procs |-> IdleGet]

PageInit ==
    /\ cMessages = <<>>
    /\ cHasMore = FALSE
    /\ cLoadingMore = FALSE
    /\ cOldestTs = 0
    /\ cPhase = "boot"
    /\ cErr = FALSE
    /\ cTags = <<>>
    /\ cActive = <<"general">>
    /\ cSwitch = <<>>

\* A server-side caller invokes fetchHistory.
FetchHistoryCall(before, limit, channel, err) ==
    /\ histCall = NoCall
    /\ histCall' = [before |-> before, limit |-> limit, channel |-> channel,
                    err |-> err,
                    res |-> fetchHistory(log, before, limit, channel, err)]
    /\ UNCHANGED <<log, now, xHist, hGet, connVars>>

\* getNatsConnection up to `await connect(...)`: the held connection is
\* returned if there is one and it is not closed.
GetConnStart(p) ==
    /\ gcCall[p].pc # "connect"
    /\ IF connection # 0 /\ connection \in openConns
       THEN gcCall' = [gcCall EXCEPT ![p] = [pc |-> "done", got |-> connection]]
       ELSE gcCall' = [gcCall EXCEPT ![p] = [pc |-> "connect", got |-> 0]]
    /\ UNCHANGED <<log, now, xHist, histCall, hGet, connection, openConns,
                   connects>>

\* connect resolves: `connection = await connect(...)`; return connection.
GetConnOk(p) ==
    /\ gcCall[p].pc = "connect"
    /\ connects < MaxServerConns
    /\ connects' = connects + 1
    /\ openConns' = openConns \cup {connects + 1}
    /\ connection' = connects + 1
    /\ gcCall' = [gcCall EXCEPT ![p] = [pc |-> "done", got |-> connects + 1]]
    /\ UNCHANGED <<log, now, xHist, histCall, hGet>>

\* connect rejects: the call throws.
GetConnFail(p) ==
    /\ gcCall[p].pc = "connect"
    /\ gcCall' = [gcCall EXCEPT ![p] = [pc |-> "done", got |-> 0]]
    /\ UNCHANGED <<log, now, xHist, histCall, hGet, connection, openConns,
                   connects>>

\* A connection of the server is closed.
ServerConnClosed(c) ==
    /\ c \in openConns
    /\ openConns' = openConns \ {c}
    /\ UNCHANGED <<log, now, xHist, histCall, hGet, connection, connects,
                   gcCall>>

\* A client sends GET /api/history and gets its response.
HistoryRequest(query, fault) ==
    /\ hGet = NoGet
    /\ LET r == HistoryRoute(log, query, fault)
       IN  hGet' = [query |-> query, fault |-> fault, status |-> r.status,
                    body |-> r.body]
    /\ UNCHANGED <<log, now, xHist, histCall, connVars>>

\* messages.map(m => ({ ...m, _channel: channel })): the tags of a page.
TagsOf(page, channel) == [i \in 1..Len(page) |-> channel]

RECURSIVE Shown(_, _, _)
\* filteredMessages: the entries tagged with the active channel; entries
\* without a tag are shown in general.
Shown(msgs, tags, active) ==
    IF msgs = <<>> THEN <<>>
    ELSE LET rest == Shown(Tail(msgs), Tail(tags), active)
             tag == Head(tags)
         IN  IF (tag = <<>> /\ active = <<"general">>) \/ tag = active
             THEN <<Head(msgs)>> \o rest
             ELSE rest

FilteredMessages == Shown(cMessages, cTags, cActive)

\* onMount: fetch('/api/history?channel=general'); messages.set(tagged).
ClientInitialLoad(err) ==
    /\ cPhase = "boot"
    /\ LET data == HistoryGET(log, NoBefore, err)
       IN  /\ cMessages' = data.messages
           /\ cTags' = TagsOf(data.messages, <<"general">>)
           /\ cHasMore' = data.hasMore
    /\ cPhase' = "ready"
    /\ cErr' = (cErr \/ err)
    /\ UNCHANGED <<log, now, xPage, cLoadingMore, cOldestTs, cActive, cSwitch>>

\* loadMore up to its await of fetch.
LoadMoreStart ==
    /\ cPhase = "ready"
    /\ ~cLoadingMore /\ cHasMore /\ FilteredMessages # <<>>
    /\ cLoadingMore' = TRUE
    /\ cOldestTs' = FilteredMessages[1].ts
    /\ UNCHANGED <<log, now, xPage, cMessages, cHasMore, cPhase, cErr,
                   cTags, cActive, cSwitch>>

\* loadMore from the response on.
LoadMoreDone(err) ==
    /\ cLoadingMore
    /\ LET data == HistoryGET(log, cOldestTs, err)
       IN  IF data.messages # <<>>
           THEN /\ cMessages' = data.messages \o cMessages
                /\ cTags' = TagsOf(data.messages, cActive) \o cTags
                /\ cHasMore' = data.hasMore
           ELSE /\ cHasMore' = FALSE
                /\ UNCHANGED <<cMessages, cTags>>
    /\ cLoadingMore' = FALSE
    /\ cErr' = (cErr \/ err)
    /\ UNCHANGED <<log, now, xPage, cOldestTs, cPhase, cActive, cSwitch>>

\* An entry of the messages store with its tag, keyed by ts for the sort.
Entries(msgs, tags) ==
    [i \in 1..Len(msgs) |-> [ts |-> msgs[i].ts, m |-> msgs[i], ch |-> tags[i]]]

\* switchChannel up to its await of fetch (the page is in channel mode, so
\* a switch to the active channel returns at once).
SwitchChannelStart(channel) ==
    /\ cPhase = "ready"
    /\ cSwitch = <<>>
    /\ channel # cActive
    /\ cActive' = channel
    /\ cSwitch' = channel
    /\ UNCHANGED <<log, now, xPage, cMessages, cHasMore, cLoadingMore,
                   cOldestTs, cPhase, cErr, cTags>>

\* switchChannel from the response on: the entries tagged with the channel
\* are replaced by the tagged page, the others (untagged ones included)
\* are kept, and the list is sorted by ts.
SwitchChannelDone(err) ==
    /\ cSwitch # <<>>
    /\ LET data == HistoryGET(log, NoBefore, err)
           kept == { i \in 1..Len(cMessages) : cTags[i] # cSwitch }
           all == Entries(cMessages, cTags)
           otherMsgs == SelectSeqBy(all, { all[i] : i \in kept })
           merged == SortByTs(otherMsgs
                              \o Entries(data.messages,
                                         TagsOf(data.messages, cSwitch)))
       IN  /\ cMessages' = [i \in 1..Len(merged) |-> merged[i].m]
           /\ cTags' = [i \in 1..Len(merged) |-> merged[i].ch]
           /\ cHasMore' = data.hasMore
    /\ cSwitch' = <<>>
    /\ cErr' = (cErr \/ err)
    /\ UNCHANGED <<log, now, xPage, cLoadingMore, cOldestTs, cPhase, cActive>>

\* ------------------------------------------------------- searchMessages
\* The granularity of the explored clock.
ClockTick == TIMEOUT_MS \div 2

SearchInit ==
    /\ sPc = "idle"
    /\ sArgs = [query |-> <<>>, channel |-> <<>>]
    /\ sPending = <<>>
    /\ sResults = <<>>
    /\ sTotal = 0
    /\ sTruncated = FALSE
    /\ sStartTime = 0
    /\ sRet = EmptySearch
    /\ sTrace = [examined |-> <<>>, lateExam |-> FALSE, lateDelivery |-> FALSE,
                 ended |-> "none", endTime |-> 0]

\* searchMessages up to the for-await loop; err is an error thrown while the
\* consumer is created or fetched (the catch returns the empty result).
SearchStart(query, channel, err) ==
    /\ sPc = "idle"
    /\ sArgs' = [query |-> query, channel |-> channel]
    /\ sResults' = <<>>
    /\ sTotal' = 0
    /\ sTruncated' = FALSE
    /\ sStartTime' = now
    /\ IF err
       THEN /\ sPc' = "done"
            /\ sPending' = <<>>
            /\ sRet' = EmptySearch
            /\ sTrace' = [sTrace EXCEPT !.ended = "error", !.endTime = now]
       ELSE /\ sPc' = "scan"
            /\ sPending' = Fetched(log, channel)
            /\ UNCHANGED <<sRet, sTrace>>
    /\ UNCHANGED <<log, now, xSearch>>

\* results.sort(...); return { results, total, truncated }.  delivered: the
\* return happens in an iteration of the loop, on a delivered entry.
SearchReturn(results, total, truncated, how, delivered) ==
    /\ sPc' = "done"
    /\ sRet' = [results |-> SortByTs(results), total |-> total,
                truncated |-> truncated]
    /\ sTrace' = [sTrace EXCEPT
                    !.ended = how, !.endTime = now,
                    !.lateDelivery =
                        @ \/ (delivered /\ now - sStartTime > TIMEOUT_MS)]

DeadlinePassed_NoCheck(t) == FALSE

\* Date.now() - startTime > TIMEOUT_MS
DeadlinePassed(t) == t - sStartTime > TIMEOUT_MS

\* !(results.length < MAX_RESULTS)
ResultsFull(results) == Len(results) >= MAX_RESULTS

\* One iteration of the for-await loop: the next entry is delivered.
SearchStep ==
    /\ sPc = "scan"
    /\ sPending # <<>>
    /\ IF DeadlinePassed(now)
       THEN /\ sTruncated' = TRUE
            /\ SearchReturn(sResults, sTotal, TRUE, "deadline", TRUE)
            /\ UNCHANGED <<sPending, sResults, sTotal>>
       ELSE LET p == Head(sPending)
                hit == Matches(p, LowerQuery(sArgs.query))
                full == ResultsFull(sResults)
            IN  /\ sPending' = Tail(sPending)
                /\ sTotal' = IF hit THEN sTotal + 1 ELSE sTotal
                /\ sResults' = IF hit /\ ~full THEN Append(sResults, p)
                               ELSE sResults
                /\ sTruncated' = (sTruncated \/ (hit /\ full))
                /\ sTrace' = [sTrace EXCEPT
                                !.examined = Append(@, p),
                                !.lateExam = @ \/ (now - sStartTime > TIMEOUT_MS),
                                !.lateDelivery =
                                    @ \/ (now - sStartTime > TIMEOUT_MS)]
                /\ UNCHANGED <<sPc, sRet>>
    /\ UNCHANGED <<log, now, xSearch, sArgs, sStartTime>>

\* The iterator ends: every fetched entry was delivered, or the fetch
\* expired (expires: 4000) with entries not yet delivered.
SearchEnd ==
    /\ sPc = "scan"
    /\ \/ sPending = <<>>
       \/ now - sStartTime >= FETCH_EXPIRES
    /\ SearchReturn(sResults, sTotal, sTruncated,
                    IF sPending = <<>> THEN "drained" ELSE "expired", FALSE)
    /\ UNCHANGED <<log, now, xSearch, sArgs, sPending, sResults,
                   sTotal, sTruncated, sStartTime>>

\* Time passes while a search is scanning.
TickSearch ==
    /\ sPc = "scan"
    /\ now + ClockTick <= MaxTicks * ClockTick
    /\ now' = now + ClockTick
    /\ UNCHANGED <<log, xSearch, searchVars>>

\* ------------------------------------------------- membership functions
IdleProc ==
    [pc |-> "idle", op |-> "none", ch |-> <<>>, name |-> <<>>, type |-> "none",
     iter |-> <<>>, iterOpen |-> FALSE, matching |-> <<>>, members |-> <<>>,
     done |-> FALSE,
     \* history of the call
     getWhileOpen |-> FALSE, pre |-> [k \in MemberKeys |-> Absent],
     ops |-> <<>>, second |-> FALSE, wrote |-> FALSE]

\* Bucket contents at the start: nothing, or members joined earlier.
InitialBuckets ==
    { [k \in MemberKeys |-> Absent],
      [k \in MemberKeys |->
          IF k = <<"general", "alice">>
          THEN [name |-> <<"alice">>, type |-> "human", joinedAt |-> 0]
          ELSE IF k = <<"dev", "bob">>
          THEN [name |-> <<"bob">>, type |-> "ai", joinedAt |-> 0]
          ELSE Absent] }

\* No members request or seed call runs in a place.
IdleReq ==
    [pc |-> "idle", via |-> "none", ch |-> <<>>, iter |-> <<>>, seen |-> {},
     out |-> <<>>,
     \* history of the call
     scan |-> <<>>, adds |-> <<>>, pre |-> [k \in MemberKeys |-> Absent],
     owed |-> {}]

RouteInit ==
    /\ rReq = [p \in Procs |-> IdleReq]
    /\ seeded = {}
    /\ rGets = 0

MembersInit ==
    /\ membersKv \in InitialBuckets
    /\ mProc = [p \in Procs |-> IdleProc]
    /\ mCalls = 0
    /\ mSettled = {}
    /\ RouteInit

\* The keys the bucket holds a value for, as kv.keys() lists them.
LiveKeys(kv) == { k \in DOMAIN kv : kv[k] # Absent }

\* A put or delete takes effect: the running enumerations see it happen.
Mutated(procs, mutation) ==
    [q \in Procs |->
        IF procs[q].op = "list" /\ procs[q].pc # "idle"
        THEN [procs[q] EXCEPT !.ops = Append(@, mutation)]
        ELSE procs[q]]

\* The enumeration is over: return members.
ListReturn(rec) == [rec EXCEPT !.pc = "idle", !.done = TRUE]

\* The key loop is over (the iterator is closed); with nothing to fetch the
\* function returns.
ListKeysDrained(rec) ==
    IF rec.matching = <<>>
    THEN ListReturn([rec EXCEPT !.iterOpen = FALSE])
    ELSE [rec EXCEPT !.iterOpen = FALSE, !.pc = "gets"]

\* A getChannelMembers call after `await kv.keys()`: the iterator is open
\* on the keys the bucket holds now.
ListCall(channel) ==
    LET rec == [IdleProc EXCEPT
                  !.op = "list", !.ch = channel, !.pc = "keys",
                  !.iter = SetToSeq(LiveKeys(membersKv)),
                  !.iterOpen = TRUE, !.pre = membersKv]
    IN  IF rec.iter = <<>> THEN ListKeysDrained(rec) ELSE rec

\* An addChannelMember call before the answer of its kv.get.
AddCall(channel, name, type) ==
    [IdleProc EXCEPT
       !.op = "add", !.ch = channel, !.name = name, !.type = type,
       !.pc = "addGet", !.second = (MemberKey(channel, name) \in mSettled)]

\* getChannelMembers up to `await kv.keys()`.
ListStart(p, channel) ==
    /\ mProc[p].pc = "idle"
    /\ mCalls < MaxCalls
    /\ mCalls' = mCalls + 1
    /\ mProc' = [mProc EXCEPT ![p] = ListCall(channel)]
    /\ UNCHANGED <<log, now, xMembers, membersKv, mSettled>>

\* The documented hazard: kv.get inside the kv.keys() loop; the concurrent
\* consumers conflict and the listing ends after the first key.
ListKeysNext_SinglePhase(p) ==
    /\ mProc[p].pc = "keys"
    /\ mProc[p].iter # <<>>
    /\ LET rec == mProc[p]
           key == Head(rec.iter)
           hit == StartsWithPrefix(key, rec.ch) /\ membersKv[key] # Absent
       IN  mProc' = [mProc EXCEPT ![p] =
              ListReturn([rec EXCEPT
                 !.iter = <<>>, !.iterOpen = FALSE,
                 !.getWhileOpen = @ \/ StartsWithPrefix(key, rec.ch),
                 !.members = IF hit THEN Append(@, membersKv[key]) ELSE @])]
    /\ UNCHANGED <<log, now, xMembers, membersKv, mCalls, mSettled>>

\* Step 1 of getChannelMembers, one iteration: collect a key of the channel.
ListKeysNext(p) ==
    /\ mProc[p].pc = "keys"
    /\ mProc[p].iter # <<>>
    /\ LET rec == mProc[p]
           key == Head(rec.iter)
           next == [rec EXCEPT
                      !.iter = Tail(@),
                      !.matching = IF StartsWithPrefix(key, rec.ch)
                                   THEN Append(@, key) ELSE @]
       IN  mProc' = [mProc EXCEPT ![p] =
                        IF next.iter = <<>> THEN ListKeysDrained(next) ELSE next]
    /\ UNCHANGED <<log, now, xMembers, membersKv, mCalls, mSettled>>

\* Step 2 of getChannelMembers, one iteration: fetch a collected key's value.
ListGet(p) ==
    /\ mProc[p].pc = "gets"
    /\ mProc[p].matching # <<>>
    /\ LET rec == mProc[p]
           key == Head(rec.matching)
           next == [rec EXCEPT
                      !.matching = Tail(@),
                      !.getWhileOpen = @ \/ rec.iterOpen,
                      !.members = IF membersKv[key] # Absent
                                  THEN Append(@, membersKv[key]) ELSE @]
       IN  mProc' = [mProc EXCEPT ![p] =
                        IF next.matching = <<>> THEN ListReturn(next) ELSE next]
    /\ UNCHANGED <<log, now, xMembers, membersKv, mCalls, mSettled>>

\* addChannelMember up to `await kv.get(key)`.
AddStart(p, channel, name, type) ==
    /\ mProc[p].pc = "idle"
    /\ mCalls < MaxCalls
    /\ mCalls' = mCalls + 1
    /\ mProc' = [mProc EXCEPT ![p] = AddCall(channel, name, type)]
    /\ UNCHANGED <<log, now, xMembers, membersKv, mSettled>>

AddGet_NoCheck(p) ==
    /\ mProc[p].pc = "addGet"
    /\ mProc' = [mProc EXCEPT ![p].pc = "addPut"]
    /\ UNCHANGED <<log, now, xMembers, membersKv, mCalls, mSettled>>

\* addChannelMember: the answer of kv.get; an existing member returns.
AddGet(p) ==
    /\ mProc[p].pc = "addGet"
    /\ LET key == MemberKey(mProc[p].ch, mProc[p].name)
       IN  IF membersKv[key] # Absent
           THEN /\ mProc' = [mProc EXCEPT ![p].pc = "idle", ![p].done = TRUE]
                /\ mSettled' = mSettled \cup {key}
           ELSE /\ mProc' = [mProc EXCEPT ![p].pc = "addPut"]
                /\ UNCHANGED mSettled
    /\ UNCHANGED <<log, now, xMembers, membersKv, mCalls>>

\* addChannelMember: kv.put(key, { name, type, joinedAt: Date.now() }).
\* Date.now() is read before the put is sent; both happen in one turn.
AddPut(p) ==
    /\ mProc[p].pc = "addPut"
    /\ LET key == MemberKey(mProc[p].ch, mProc[p].name)
           info == [name |-> mProc[p].name, type |-> mProc[p].type,
                    joinedAt |-> now]
           ended == [mProc EXCEPT ![p].pc = "idle", ![p].done = TRUE,
                                  ![p].wrote = TRUE]
       IN  /\ membersKv' = [membersKv EXCEPT ![key] = info]
           /\ mProc' = Mutated(ended, [kind |-> "put", key |-> key, val |-> info])
           /\ mSettled' = mSettled \cup {key}
    /\ UNCHANGED <<log, now, xMembers, mCalls>>

\* removeChannelMember: kv.delete(key), whether or not the key exists.
RemoveCall(p, channel, name) ==
    /\ mProc[p].pc = "idle"
    /\ mCalls < MaxCalls
    /\ mCalls' = mCalls + 1
    /\ LET key == MemberKey(channel, name)
           ended == [mProc EXCEPT ![p] =
                        [IdleProc EXCEPT !.op = "remove", !.ch = channel,
                                         !.name = name, !.done = TRUE]]
           unsettled == [q \in Procs |->
                           IF ended[q].op = "add"
                              /\ MemberKey(ended[q].ch, ended[q].name) = key
                           THEN [ended[q] EXCEPT !.second = FALSE]
                           ELSE ended[q]]
       IN  /\ membersKv' = [membersKv EXCEPT ![key] = Absent]
           /\ mProc' = Mutated(unsettled,
                               [kind |-> "del", key |-> key, val |-> Absent])
           /\ mSettled' = mSettled \ {key}
    /\ UNCHANGED <<log, now, xMembers>>

\* Time passes before a membership write reads the clock.
TickMembers ==
    /\ \E p \in Procs : mProc[p].pc = "addPut"
    /\ now + ClockTick <= MaxJoinTicks * ClockTick
    /\ now' = now + ClockTick
    /\ UNCHANGED <<log, xMembers, memberVars>>

\* ------------------------------------------------------------ POST send
NoAttempt == [start |-> 0, n |-> 0, last |-> 0, body |-> <<>>,
                                                           prevOver |-> FALSE]

RateInit ==
    /\ rateLimitMap = [e \in Emails |-> NoEntry]
    /\ postCount = 0
    /\ postStatus = 0
    /\ mSpawned = <<>>
    /\ rlTrace = [e \in Emails |-> NoAttempt]

OverLimit_AtMax(count) == count >= RATE_LIMIT_MAX

\* rl.count > RATE_LIMIT_MAX
OverLimit(count) == count > RATE_LIMIT_MAX

WindowOver_AtReset(rl, t) == t >= rl.resetAt

\* now > rl.resetAt
WindowOver(rl, t) == t > rl.resetAt

\* The entry of the sender after lines 18-23: a fresh window if there is no
\* entry or the window is over, then rl.count++.
Counted(rl, t) ==
    LET cur == IF rl = NoEntry \/ WindowOver(rl, t)
               THEN [count |-> 0, resetAt |-> t + RATE_LIMIT_WINDOW]
               ELSE rl
    IN  [cur EXCEPT !.count = @ + 1]

BodyStatus_AnySubject(body) ==
    IF body.text = <<>> THEN 400
    ELSE IF Len(body.text) > MAX_MESSAGE_SIZE THEN 400
    ELSE 200

\* The checks of the body, in the order of the handler; 200 when all pass.
\* The mesh.dm. test comes after the mesh.channel. test.
BodyStatus(body) ==
    IF body.text = <<>> THEN 400
    ELSE IF Len(body.text) > MAX_MESSAGE_SIZE THEN 400
    ELSE IF ~StartsWithPrefix(body.subject, <<"mesh", "channel">>) THEN 400
    ELSE IF StartsWithPrefix(body.subject, <<"mesh", "dm">>) THEN 403
    ELSE 200

\* The envelope the handler publishes; id stands for crypto.randomUUID().
Envelope(user, body, id, t) ==
    [id |-> id, subj |-> body.subject, kind |-> "v1", ts |-> t \div 1000,
     text |-> body.text, from |-> <<SenderName(user.name)>>]

\* subject.replace('mesh.channel.', '')
ChannelOf(subject) == SubSeq(subject, 3, Len(subject))

\* The attempts of a sender in the 60 s after the first one of a window.
Attempted(tr, t, body, status) ==
    IF tr.n = 0 \/ t > tr.start + RATE_LIMIT_WINDOW
    THEN [start |-> t, n |-> 1, last |-> status, body |-> body,
          prevOver |-> tr.n > RATE_LIMIT_MAX]
    ELSE [tr EXCEPT !.n = @ + 1, !.last = status, !.body = body]

\* POST /api/send.  The handler reads the clock and the limiter entry in
\* one turn; the publish and the start of addChannelMember follow.
POST(user, body) ==
    /\ postCount < MaxPosts
    /\ postCount' = postCount + 1
    /\ IF user = NoUser
       THEN /\ postStatus' = 401
            /\ UNCHANGED <<log, rateLimitMap, mSpawned, rlTrace>>
       ELSE LET rl == Counted(rateLimitMap[user.email], now)
                status == IF OverLimit(rl.count) THEN 429 ELSE BodyStatus(body)
            IN  /\ rateLimitMap' = [rateLimitMap EXCEPT ![user.email] = rl]
                /\ postStatus' = status
                /\ rlTrace' = [rlTrace EXCEPT ![user.email] =
                                  Attempted(@, now, body, status)]
                /\ IF status = 200
                   THEN /\ log' = Append(log, Envelope(user, body,
                                                       8 + postCount, now))
                        /\ mSpawned' = Append(mSpawned,
                               [ch |-> ChannelOf(body.subject),
                                name |-> <<SenderName(user.name)>>,
                                type |-> "human"])
                   ELSE UNCHANGED <<log, mSpawned>>
    /\ UNCHANGED <<now, xRate, memberVars>>

\* A place no membership call, members request or seed call runs in.
Free(p) == mProc[p].pc = "idle" /\ rReq[p].pc \in {"idle", "done"}

\* An addChannelMember call started by POST send runs up to its kv.get, as
\* one of the running membership calls (which of the free places it takes
\* makes no difference).
AddSpawned(p) ==
    /\ mSpawned # <<>>
    /\ Free(p)
    /\ p = CHOOSE q \in Procs : Free(q)
    /\ mSpawned' = Tail(mSpawned)
    /\ LET call == Head(mSpawned)
       IN  mProc' = [mProc EXCEPT ![p] = AddCall(call.ch, call.name, call.type)]
    /\ UNCHANGED <<log, now, xRate, membersKv, mCalls, mSettled,
                   rateLimitMap, postCount, postStatus, rlTrace>>

\* The senders whose latest POST send to the channel returned success.
Acked(channel) ==
    { <<SenderName(u.name)>> :
        u \in { v \in Users :
                  /\ rlTrace[v.email].n > 0
                  /\ rlTrace[v.email].last = 200
                  /\ ChannelOf(rlTrace[v.email].body.subject) = channel } }

\* GET /api/members up to its first getChannelMembers call: a channel not
\* in `seeded` is added to it and its members are read to decide on
\* seeding; for a channel in `seeded` the final read starts at once.
RouteGet(p, channel) ==
    /\ Free(p)
    /\ rGets < MaxGets
    /\ rGets' = rGets + 1
    /\ seeded' = seeded \cup {channel}
    /\ rReq' = [rReq EXCEPT ![p] =
                   [IdleReq EXCEPT
                      !.pc = IF channel \in seeded THEN "members"
                             ELSE "existing",
                      !.via = "get", !.ch = channel,
                      !.owed = Acked(channel)]]
    /\ mProc' = [mProc EXCEPT ![p] = ListCall(channel)]
    /\ UNCHANGED <<log, now, histVars, bridgeVars, beatVars, pageVars,
                   searchVars, rateVars,
                   clientVars, membersKv, mCalls, mSettled>>

\* sub.fetch({ max_messages, expires }) of seedMembersFromHistory on a
\* consumer with filter_subject mesh.channel.<channel>: the first
\* max_messages entries of the subject, in stream order.
SeedScan(stream, channel) ==
    LET own == SelectSeqBy(stream, { m \in Range(stream) :
                                       m.subj = ChannelSubject(channel) })
    IN  SubSeq(own, 1, Min(Len(own), MaxMessages))

\* A seedMembersFromHistory call after its fetch, or after a throw of the
\* consumer calls (the function logs and returns).
SeedBegun(req, channel, err) ==
    IF err THEN [req EXCEPT !.ch = channel, !.pre = membersKv,
                            !.pc = IF req.via = "get" THEN "members"
                                   ELSE "done"]
    ELSE [req EXCEPT !.ch = channel, !.pc = "seed", !.pre = membersKv,
                     !.iter = SeedScan(log, channel),
                     !.scan = SeedScan(log, channel)]

\* GET /api/members after `existing`: an empty channel is seeded from
\* history; otherwise the final read starts.
RouteExisting(p, err) ==
    /\ rReq[p].pc = "existing"
    /\ mProc[p].op = "list" /\ mProc[p].done
    /\ err => mProc[p].members = <<>>
    /\ LET req == IF mProc[p].members = <<>>
                  THEN SeedBegun(rReq[p], rReq[p].ch, err)
                  ELSE [rReq[p] EXCEPT !.pc = "members"]
       IN  /\ rReq' = [rReq EXCEPT ![p] = req]
           /\ mProc' = [mProc EXCEPT ![p] =
                           IF req.pc = "members" THEN ListCall(req.ch)
                           ELSE IdleProc]
    /\ UNCHANGED <<log, now, histVars, bridgeVars, beatVars, pageVars,
                   searchVars, rateVars,
                   clientVars, membersKv, mCalls, mSettled, seeded, rGets>>

\* seedMembersFromHistory called for a channel, whatever the bucket holds
\* by then; as in the members route, a channel is seeded once (`seeded`).
SeedCall(p, channel, err) ==
    /\ Free(p)
    /\ channel \notin seeded
    /\ rGets < MaxGets
    /\ rGets' = rGets + 1
    /\ seeded' = seeded \cup {channel}
    /\ rReq' = [rReq EXCEPT ![p] =
                   SeedBegun([IdleReq EXCEPT !.via = "seed"], channel, err)]
    /\ mProc' = [mProc EXCEPT ![p] = IdleProc]
    /\ UNCHANGED <<log, now, histVars, bridgeVars, beatVars, pageVars,
                   searchVars, rateVars,
                   clientVars, membersKv, mCalls, mSettled>>

\* from.type of an envelope: 'human' on those POST send publishes (ids from
\* 8 on) and on alice's, 'system' on the other agents'.
FromType(m) ==
    IF m.id >= 8 \/ m.from = <<"alice">> THEN "human" ELSE "system"

\* envelope.from.type === 'human' ? 'human' : 'ai'
SeedType(type) == IF type = "human" THEN "human" ELSE "ai"

NewSender_Always(seen, m) == IsV1(m) /\ m.from # <<>>

\* envelope.v === 1 && envelope.from?.agent && !seen.has(envelope.from.agent)
NewSender(seen, m) == IsV1(m) /\ m.from # <<>> /\ m.from \notin seen

\* seedMembersFromHistory, one iteration of its loop up to the await of
\* addChannelMember; when the iterator ends the function returns (and the
\* members route starts its final read).
SeedNext(p) ==
    /\ rReq[p].pc = "seed"
    /\ mProc[p].pc = "idle"
    /\ LET req == rReq[p]
       IN  IF req.iter = <<>>
           THEN /\ rReq' = [rReq EXCEPT ![p].pc =
                               IF req.via = "get" THEN "members" ELSE "done"]
                /\ mProc' = [mProc EXCEPT ![p] =
                                IF req.via = "get" THEN ListCall(req.ch)
                                ELSE IdleProc]
           ELSE LET m == Head(req.iter)
                IN  IF NewSender(req.seen, m)
                    THEN /\ rReq' = [rReq EXCEPT
                                        ![p].iter = Tail(@),
                                        ![p].seen = @ \cup {m.from},
                                        ![p].adds = Append(@, m.from)]
                         /\ mProc' = [mProc EXCEPT ![p] =
                                AddCall(req.ch, m.from, SeedType(FromType(m)))]
                    ELSE /\ rReq' = [rReq EXCEPT ![p].iter = Tail(@)]
                         /\ UNCHANGED mProc
    /\ UNCHANGED <<log, now, histVars, bridgeVars, beatVars, pageVars,
                   searchVars, rateVars,
                   clientVars, membersKv, mCalls, mSettled, seeded, rGets>>

\* GET /api/members: the final getChannelMembers returned; json({ members }).
RouteMembers(p) ==
    /\ rReq[p].pc = "members"
    /\ mProc[p].op = "list" /\ mProc[p].done
    /\ rReq' = [rReq EXCEPT ![p].pc = "done", ![p].out = mProc[p].members]
    /\ mProc' = [mProc EXCEPT ![p] = IdleProc]
    /\ UNCHANGED <<log, now, histVars, bridgeVars, beatVars, pageVars,
                   searchVars, rateVars,
                   clientVars, membersKv, mCalls, mSettled, seeded, rGets>>

\* Time passes between requests.
TickRate ==
    /\ now + RATE_LIMIT_WINDOW \div 2 <= MaxRateTicks * (RATE_LIMIT_WINDOW \div 2)
    /\ now' = now + RATE_LIMIT_WINDOW \div 2
    /\ UNCHANGED <<log, xRate, memberVars, rateVars>>

\* ---------------------------------------------------- the client session
EmptyPresenceKv == [k \in Agents |-> NoValue]

\* The presence bucket when the client connects: empty, with agent a
\* online, or with a online and b offline.
InitialPresenceKv ==
    { EmptyPresenceKv,
      [k \in Agents |->
          IF k = "a" THEN [name |-> "", status |-> "online", seq |-> 0]
          ELSE NoValue],
      [k \in Agents |->
          IF k = "a" THEN [name |-> "", status |-> "online", seq |-> 0]
          ELSE [name |-> "", status |-> "offline", seq |-> 0]] }

EmptyPresence == [a \in Agents |-> NoInfo]

\* loadCachedPresence(): nothing cached, or agent a cached by an earlier
\* session.
InitialPresence ==
    { EmptyPresence,
      [a \in Agents |->
          IF a = "a" THEN [agent |-> "a", status |-> "online", seq |-> 0]
          ELSE NoInfo] }

EmptyTelemetry == [a \in Agents |-> NoTelemetry]

InitialTelemetryKv ==
    { EmptyTelemetry,
      [k \in Agents |-> CHOOSE d \in TelemetryData : d.agent = k] }

\* mesh-telemetry-cache at page load: nothing, or an older payload of a.
InitialTelemetryCache ==
    { EmptyTelemetry,
      [a \in Agents |->
          IF a = "a"
          THEN [agent |-> "a", sessions |-> [total |-> 1, active |-> 1],
                ts |-> 0]
          ELSE NoTelemetry] }

\* The credential of GET /api/nats-token at time t: the configured seed,
\* to be refreshed by t + SEED_TTL_MS.
IssuedSeed(t) == [seed |-> "S", expiresAt |-> t + SEED_TTL_MS]

NoSeed == [seed |-> "", expiresAt |-> 0 - 1]

NoAttemptYet == [kind |-> "none", stale |-> FALSE]

\* No connection yet; up says whether the server is reachable.
LinkInit(up) ==
    /\ cLink = "none"
    /\ srvUp = up
    /\ seedExpiresAt = 0
    /\ cSeed = NoSeed
    /\ cMonPc = "idle"
    /\ cEvQ = <<>>
    /\ cTrace = [failed |-> FALSE, explicit |-> FALSE, torn |-> FALSE,
                 frozen |-> <<>>, auth |-> NoAttemptYet]
    /\ cChanQ = <<>>
    /\ cPublished = <<>>

\* The replies an agent's session bridge sends: a result, a failure as a
\* value, and bytes that are not JSON.
BridgeReplies ==
    { [kind |-> "json", success |-> TRUE, error |-> ""],
      [kind |-> "json", success |-> FALSE, error |-> "agent error"],
      [kind |-> "bad", success |-> FALSE, error |-> ""] }

NoReply == [kind |-> "none", success |-> FALSE, error |-> ""]

\* No session bridge call yet. A finished call has how = "returned" with
\* the value, or how = "threw" with the error message; cause is history.
IdleBridge == [op |-> "none", pc |-> "idle", start |-> 0, how |-> "none",
               value |-> NoReply, error |-> "", cause |-> "none"]

\* No heartbeat published yet (last is the time of the last one); off
\* says whether disconnectNats has been called since the last call of
\* connectNats.
NoBeat == [last |-> 0 - 1, off |-> FALSE, late |-> FALSE]

SessionInit ==
    /\ cStatus = "disconnected"
    /\ cConn = "none"
    /\ cUser = ""
    /\ cSubs = <<>>
    /\ cHeartbeat = FALSE
    /\ cTimers = <<>>
    /\ hbTrace = NoBeat
    /\ bReq = IdleBridge
    /\ bCalls = 0
    /\ LinkInit(TRUE)

PresenceInit(kv, cached) ==
    /\ presenceKv = kv
    /\ presence = cached
    /\ presenceCache = cached
    /\ pTask = IdleTask
    /\ pWatchQ = <<>>
    /\ pSubQ = <<>>
    /\ evGen = 0
    /\ pHist = [a \in Agents |-> <<>>]
    /\ pOrder = [early |-> FALSE, stale |-> FALSE]

\* No update applied to an agent's telemetry entry yet.
NoUpdate == [src |-> "none", raw |-> NoTelemetry]

TelemetryInit(kv, cached) ==
    /\ telemetryKv = kv
    /\ telemetry = EmptyTelemetry
    /\ telemetryCache = cached
    /\ tTask = IdleTask
    /\ tPersist = FALSE
    /\ tWatchQ = <<>>
    /\ tSubQ = <<>>
    /\ tGen = 0
    /\ tHist = [a \in Agents |-> NoUpdate]

\* The client before connectNats, with nothing in the buckets and caches.
ClientInit ==
    /\ SessionInit
    /\ PresenceInit(EmptyPresenceKv, EmptyPresence)
    /\ TelemetryInit(EmptyTelemetry, EmptyTelemetry)

\* connectNats up to `await connect(...)`, called with the seed the page
\* has just fetched, while there is no connection.
ConnectStart(userName) ==
    /\ cConn = "none"
    /\ cConn' = "connecting"
    /\ cStatus' = "connecting"
    /\ cUser' = userName
    /\ cSeed' = IssuedSeed(now)
    /\ cTrace' = [cTrace EXCEPT !.torn = FALSE, !.frozen = <<>>]
    /\ hbTrace' = [hbTrace EXCEPT !.off = FALSE]
    /\ UNCHANGED <<xConnect, cSubs, cHeartbeat, presenceVars, telemetryVars,
                   cLink, cTimers>>

\* connectNats up to `await connect(...)`, called while an earlier
\* connection is open: nothing of it is closed.
ConnectOver(userName) ==
    /\ cConn = "open"
    /\ Len(cSubs) < MaxConns * Len(SubNames)
    /\ Len(cTimers) < MaxConns
    /\ cConn' = "connecting"
    /\ cStatus' = "connecting"
    /\ cUser' = userName
    /\ cSeed' = IssuedSeed(now)
    /\ hbTrace' = [hbTrace EXCEPT !.off = FALSE]
    /\ UNCHANGED <<xConnect, cSubs, cHeartbeat, presenceVars, telemetryVars,
                   cLink, cTrace, cTimers>>

\* connect rejects: the catch block.
ConnectFail ==
    /\ cConn = "connecting"
    /\ cConn' = "none"
    /\ cStatus' = "disconnected"
    /\ cTrace' = [cTrace EXCEPT !.failed = TRUE]
    /\ UNCHANGED <<xConnect, cUser, cSubs, cHeartbeat, presenceVars,
                   telemetryVars, cLink, cSeed, beatVars>>

\* The cached telemetry entries set over the store's.
Merged(map, cached) ==
    [a \in Agents |-> IF cached[a] # NoTelemetry THEN cached[a] ELSE map[a]]

\* The message publishPresence publishes for a user, as presenceSub
\* receives it.
Beat(user) == [subject |-> <<"mesh", "presence", user>>, status |-> "online",
               seq |-> evGen]

\* The history after one more heartbeat.
Beaten(trace) == [trace EXCEPT !.last = now, !.late = @ \/ trace.off]

\* connect resolves; the rest of connectNats runs in one turn: the two KV
\* tasks are started and stop at their first await, the five
\* subscriptions are opened, the telemetry cache is loaded, the first
\* heartbeat is published (and echoed to presenceSub) and the timer is set.
ConnectOk ==
    /\ cConn = "connecting"
    /\ srvUp
    /\ cConn' = "open"
    /\ cLink' = "up"
    /\ cStatus' = "connected"
    /\ cTrace' = [cTrace EXCEPT
                     !.failed = FALSE,
                     !.auth = [kind |-> "connect",
                               stale |-> now > cSeed.expiresAt]]
    /\ pTask' = [IdleTask EXCEPT !.pc = "kv"]
    /\ cSubs' = cSubs \o SubNames
    /\ telemetry' = Merged(telemetry, telemetryCache)
    /\ telemetryCache' = IF tPersist THEN telemetry' ELSE telemetryCache
    /\ tHist' = [a \in Agents |->
                   IF telemetryCache[a] # NoTelemetry
                   THEN [src |-> "cache", raw |-> telemetryCache[a]]
                   ELSE tHist[a]]
    /\ tTask' = [IdleTask EXCEPT !.pc = "kv"]
    /\ IF cUser # ""
       THEN /\ pSubQ' = Append(pSubQ, Beat(cUser))
            /\ hbTrace' = Beaten(hbTrace)
            /\ cTimers' = Append(cTimers, [user |-> cUser,
                                            due |-> now + HEARTBEAT_MS])
            /\ cHeartbeat' = TRUE
       ELSE UNCHANGED <<pSubQ, cHeartbeat, beatVars>>
    /\ UNCHANGED <<xConnect, cUser, presenceKv, presence, presenceCache,
                   pWatchQ, evGen, pHist, pOrder, telemetryKv, tPersist, cSeed,
                   tWatchQ, tSubQ, tGen>>

\* The server becomes unreachable, or reachable again.
ServerDown ==
    /\ srvUp
    /\ srvUp' = FALSE
    /\ UNCHANGED <<xLink, cLink, seedExpiresAt, cSeed, cMonPc, cEvQ, cTrace>>

ServerUp ==
    /\ ~srvUp
    /\ srvUp' = TRUE
    /\ UNCHANGED <<xLink, cLink, seedExpiresAt, cSeed, cMonPc, cEvQ, cTrace>>

\* The transport of the open connection breaks: nc.status() yields
\* 'disconnect' and the library starts to reconnect (reconnect: true).
LinkDown ==
    /\ cConn = "open"
    /\ cLink = "up"
    /\ Len(cEvQ) < MaxStatusEvents
    /\ cLink' = "down"
    /\ cEvQ' = Append(cEvQ, "disconnect")
    /\ UNCHANGED <<xLink, srvUp, seedExpiresAt, cSeed, cMonPc, cTrace>>

\* nc.status() yields 'error' (the connection stays as it is).
LinkError ==
    /\ cConn = "open"
    /\ Len(cEvQ) < MaxStatusEvents
    /\ cEvQ' = Append(cEvQ, "error")
    /\ UNCHANGED <<xLink, cLink, srvUp, seedExpiresAt, cSeed, cMonPc, cTrace>>

\* A reconnect attempt of the library finds the server unreachable:
\* nc.status() yields 'reconnecting' (maxReconnectAttempts: -1, so another
\* attempt follows).
LinkRetryFail ==
    /\ cConn = "open"
    /\ cLink = "down"
    /\ ~srvUp
    /\ Len(cEvQ) < MaxStatusEvents
    /\ cEvQ' = Append(cEvQ, "reconnecting")
    /\ UNCHANGED <<xLink, cLink, srvUp, seedExpiresAt, cSeed, cMonPc, cTrace>>

\* A reconnect attempt of the library succeeds: it authenticates with the
\* seed the authenticator was built with (line 29) and nc.status() yields
\* 'reconnect'.
LinkReconnect ==
    /\ cConn = "open"
    /\ cLink = "down"
    /\ srvUp
    /\ Len(cEvQ) < MaxStatusEvents
    /\ cLink' = "up"
    /\ cEvQ' = Append(cEvQ, "reconnect")
    /\ cTrace' = [cTrace EXCEPT
                     !.auth = [kind |-> "reconnect",
                               stale |-> now > cSeed.expiresAt]]
    /\ UNCHANGED <<xLink, srvUp, seedExpiresAt, cSeed, cMonPc>>

\* One iteration of the status monitor loop (lines 39-52).
MonitorStep ==
    /\ cMonPc = "idle"
    /\ cEvQ # <<>>
    /\ cEvQ' = Tail(cEvQ)
    /\ LET s == Head(cEvQ)
       IN  IF s \in {"disconnect", "error"}
           THEN /\ cStatus' = "disconnected"
                /\ cTrace' = [cTrace EXCEPT !.failed = TRUE]
                /\ UNCHANGED cMonPc
           ELSE IF s = "reconnect"
           THEN /\ cStatus' = "connected"
                /\ cTrace' = [cTrace EXCEPT !.failed = FALSE]
                /\ cMonPc' = IF now > seedExpiresAt THEN "fetch" ELSE "idle"
           ELSE UNCHANGED <<cStatus, cTrace, cMonPc>>
    /\ UNCHANGED <<log, now, histVars, routeVars, bridgeVars, beatVars,
                   pageVars, searchVars, memberVars,
                   rateVars, cConn, cUser, cSubs, cHeartbeat, presenceVars,
                   telemetryVars, feedVars, cLink, srvUp, seedExpiresAt, cSeed>>

\* fetchSeed() of the monitor returns: seedExpiresAt is set, the seed it
\* returns is dropped; a failed fetch is logged.
SeedFetched(ok) ==
    /\ cMonPc = "fetch"
    /\ cMonPc' = "idle"
    /\ seedExpiresAt' = IF ok THEN IssuedSeed(now).expiresAt ELSE seedExpiresAt
    /\ UNCHANGED <<xLink, cLink, srvUp, cSeed, cEvQ, cTrace>>

Closed_Not(task) == task

\* A KV task when its connection is closed: its pending await rejects or
\* its watch iterator ends.
Closed(task) ==
    IF task.pc \in {"off", "failed"} THEN task ELSE [task EXCEPT !.pc = "closed"]

\* disconnectNats up to `await nc.drain()`; without a connection handle it
\* runs to its end.
DisconnectStart ==
    /\ cConn # "draining"
    /\ cHeartbeat' = FALSE
    /\ cSubs' = <<>>
    /\ pSubQ' = <<>>
    /\ tSubQ' = <<>>
    /\ cChanQ' = <<>>
    /\ cTrace' = [cTrace EXCEPT !.explicit = TRUE]
    /\ cTimers' = IF cHeartbeat THEN SubSeq(cTimers, 1, Len(cTimers) - 1)
                  ELSE cTimers
    /\ hbTrace' = [hbTrace EXCEPT !.off = TRUE]
    /\ IF cConn = "open"
       THEN /\ cConn' = "draining"
            /\ UNCHANGED cStatus
       ELSE /\ cStatus' = "disconnected"
            /\ UNCHANGED cConn
    /\ UNCHANGED <<log, now, histVars, routeVars, bridgeVars, pageVars,
                   searchVars, memberVars,
                   rateVars, cUser, presenceKv, presence, presenceCache, pTask,
                   pWatchQ, evGen, pHist, pOrder, telemetryKv, telemetry,
                   telemetryCache, tTask, tPersist, tWatchQ, tGen, tHist,
                   cLink, srvUp, seedExpiresAt, cSeed, cMonPc, cEvQ,
                   cPublished>>

\* disconnectNats after `await nc.drain()`: the watch deliveries in flight
\* have been handled and the connection is closed, which ends its watches
\* and status iterator; nc = null, status disconnected.
DisconnectDone ==
    /\ cConn = "draining"
    /\ pWatchQ = <<>>
    /\ tWatchQ = <<>>
    /\ cConn' = "none"
    /\ cLink' = "none"
    /\ cStatus' = "disconnected"
    /\ pTask' = Closed(pTask)
    /\ tTask' = Closed(tTask)
    /\ cEvQ' = <<>>
    /\ cTrace' = [cTrace EXCEPT !.torn = TRUE,
                                !.frozen = <<presence, telemetry>>]
    /\ UNCHANGED <<log, now, histVars, routeVars, bridgeVars, beatVars,
                   pageVars, searchVars, memberVars,
                   rateVars, cUser, cSubs, cHeartbeat, presenceKv, presence,
                   presenceCache, pWatchQ, pSubQ, evGen, pHist, pOrder, telemetryKv,
                   telemetry, telemetryCache, tPersist, tWatchQ, tSubQ, tGen,
                   tHist, srvUp, seedExpiresAt,
                   cSeed, cMonPc, feedVars>>

\* The payloads published on the live channel: a version-1 envelope, one
\* of another version and one that is not JSON.
LivePayloads == { p \in Payloads : p.id \in {1, 5, 6} }

\* The number of open subscriptions of a name.
OpenSubs(name) == Cardinality({ i \in 1..Len(cSubs) : cSubs[i] = name })

\* n copies of x.
Copies(n, x) == [i \in 1..n |-> x]

\* A payload is published on mesh.channel.general while the client is
\* connected: every open channelSub receives it.
ChannelPublish(p) ==
    /\ cLink = "up"
    /\ OpenSubs("channel") > 0
    /\ Len(cPublished) < MaxLive
    /\ cPublished' = Append(cPublished, p)
    /\ cChanQ' = cChanQ \o Copies(OpenSubs("channel"), p)
    /\ UNCHANGED <<log, now, histVars, routeVars, bridgeVars, beatVars,
                   pageVars, searchVars, memberVars,
                   rateVars, sessionVars, presenceVars, telemetryVars,
                   linkVars>>

\* An agent publishes an envelope on mesh.channel.general while the client
\* is connected: the stream stores it and every open channelSub receives
\* it.
StreamPublish(p) ==
    /\ cLink = "up"
    /\ OpenSubs("channel") > 0
    /\ Len(cPublished) < MaxLive
    /\ p \notin Range(log)
    /\ log' = Append(log, p)
    /\ cPublished' = Append(cPublished, p)
    /\ cChanQ' = cChanQ \o Copies(OpenSubs("channel"), p)
    /\ UNCHANGED <<now, histVars, routeVars, bridgeVars, beatVars,
                   pageVars, searchVars, memberVars,
                   rateVars, sessionVars, presenceVars, telemetryVars,
                   linkVars>>

\* One iteration of a channelSub loop: JSON.parse, then messages.update.
ChannelMsg ==
    /\ cChanQ # <<>>
    /\ cChanQ' = Tail(cChanQ)
    /\ cMessages' = IF Head(cChanQ).kind = "bad" THEN cMessages
                    ELSE Append(cMessages, Head(cChanQ))
    /\ cTags' = IF Head(cChanQ).kind = "bad" THEN cTags
                ELSE Append(cTags, <<>>)
    /\ UNCHANGED <<log, now, histVars, routeVars, bridgeVars, beatVars,
                   cHasMore, cLoadingMore, cOldestTs,
                   cPhase, cErr, cActive, cSwitch, searchVars, memberVars, rateVars, sessionVars,
                   presenceVars, telemetryVars, linkVars, cPublished>>

\* A timer of setInterval fires: publishPresence of the connectNats call
\* that set it (lines 294-302). It publishes when nc holds a connection
\* that is not closed; nc.publish throws on a draining connection. The
\* server echoes the message to presenceSub when the link is up.
HeartbeatTick(i) ==
    /\ i \in DOMAIN cTimers
    /\ cTimers[i].due <= now
    /\ cTimers' = [cTimers EXCEPT ![i].due = @ + HEARTBEAT_MS]
    /\ IF cConn = "open"
       THEN /\ hbTrace' = Beaten(hbTrace)
            /\ pSubQ' = IF cLink = "up" /\ OpenSubs("presence") > 0
                        THEN Append(pSubQ, Beat(cTimers[i].user))
                        ELSE pSubQ
       ELSE UNCHANGED <<hbTrace, pSubQ>>
    /\ UNCHANGED <<log, now, histVars, routeVars, bridgeVars, pageVars,
                   searchVars,
                   memberVars, rateVars, linkVars, feedVars, sessionVars,
                   presenceKv, presence, presenceCache, pTask, pWatchQ, evGen,
                   pHist, pOrder, telemetryVars>>

\* The timeout of nc.request in requestSessionHistory and
\* sendSessionMessage.
BridgeTimeoutMs(op) == IF op = "history" THEN HISTORY_TIMEOUT_MS
                       ELSE SEND_TIMEOUT_MS

\* The call rejects with an error.
Threw(req, error, cause) ==
    [req EXCEPT !.pc = "done", !.how = "threw", !.error = error,
                !.cause = cause]

\* JSON.parse(new TextDecoder().decode(response.data)) and the return.
BridgeParsed(req, reply) ==
    IF reply.kind = "bad"
    THEN Threw(req, "SyntaxError", "malformed")
    ELSE [req EXCEPT !.pc = "done", !.how = "returned", !.value = reply,
                     !.cause = "reply"]

\* requestSessionHistory or sendSessionMessage up to `await nc.request`:
\* throws without a connection handle; nc.request rejects on a draining
\* connection.
BridgeCall(op) ==
    /\ bReq.pc \in {"idle", "done"}
    /\ bCalls < MaxBridgeCalls
    /\ bCalls' = bCalls + 1
    /\ LET req == [IdleBridge EXCEPT !.op = op, !.start = now]
       IN  bReq' = IF cConn \in {"none", "connecting"}
                   THEN Threw(req, "NATS not connected", "no connection")
                   ELSE IF cConn = "draining"
                   THEN Threw(req, "CONNECTION_DRAINING", "closed")
                   ELSE [req EXCEPT !.pc = "wait"]
    /\ UNCHANGED <<log, now, histVars, routeVars, beatVars, pageVars,
                   searchVars, memberVars, rateVars, clientVars>>

\* The agent's reply arrives: the rest of the call.
BridgeReply(reply) ==
    /\ bReq.pc = "wait"
    /\ cLink = "up"
    /\ bReq' = BridgeParsed(bReq, reply)
    /\ UNCHANGED <<log, now, histVars, routeVars, beatVars, pageVars,
                   searchVars, memberVars, rateVars, clientVars, bCalls>>

\* No reply within the timeout: nc.request rejects.
BridgeTimeout ==
    /\ bReq.pc = "wait"
    /\ now >= bReq.start + BridgeTimeoutMs(bReq.op)
    /\ bReq' = Threw(bReq, "TIMEOUT", "timeout")
    /\ UNCHANGED <<log, now, histVars, routeVars, beatVars, pageVars,
                   searchVars, memberVars, rateVars, clientVars, bCalls>>

\* The connection is closed under the pending request: nc.request rejects.
BridgeClosed ==
    /\ bReq.pc = "wait"
    /\ cConn = "none"
    /\ bReq' = Threw(bReq, "CONNECTION_CLOSED", "closed")
    /\ UNCHANGED <<log, now, histVars, routeVars, beatVars, pageVars,
                   searchVars, memberVars, rateVars, clientVars, bCalls>>

\* Time passes while a request waits; a request that has reached its
\* timeout is rejected first.
TickBridge ==
    /\ now < MaxBridgeTicks * HISTORY_TIMEOUT_MS
    /\ ~(bReq.pc = "wait" /\ now >= bReq.start + BridgeTimeoutMs(bReq.op))
    /\ now' = now + HISTORY_TIMEOUT_MS
    /\ UNCHANGED <<log, histVars, routeVars, bridgeVars, beatVars, pageVars,
                   searchVars, memberVars, rateVars, clientVars>>

\* One heartbeat interval passes, once the timers that are due have fired.
TickBeat ==
    /\ now < MaxBeats * HEARTBEAT_MS
    /\ \A i \in DOMAIN cTimers : cTimers[i].due > now
    /\ now' = now + HEARTBEAT_MS
    /\ UNCHANGED <<log, histVars, routeVars, bridgeVars, beatVars, pageVars,
                   searchVars,
                   memberVars, rateVars, clientVars>>

\* Time passes in the session.
TickSession ==
    /\ now + SEED_TTL_MS \div 2 <= MaxSeedTicks * (SEED_TTL_MS \div 2)
    /\ now' = now + SEED_TTL_MS \div 2
    /\ UNCHANGED <<log, histVars, routeVars, bridgeVars, beatVars, pageVars,
                   searchVars, memberVars, rateVars,
                   clientVars>>

\* The keys of a bucket that hold a value, as kv.keys() lists them.
KeysOf(kv, none) == SetToSeq({ k \in DOMAIN kv : kv[k] # none })

\* The key loop of a KV task is over: the iterator is closed.
KeysDrained(task) ==
    [task EXCEPT !.iterOpen = FALSE,
                 !.pc = IF task.keys = <<>> THEN "watchOpen" ELSE "gets"]

\* kv.keys() answered: the iterator is open on the keys the bucket holds.
KeysOpened(task, listed) ==
    LET opened == [task EXCEPT !.pc = "keys", !.iter = listed,
                               !.iterOpen = TRUE]
    IN  IF listed = <<>> THEN KeysDrained(opened) ELSE opened

\* One iteration of `for await (const key of ...) keys.push(key)`.
KeyPushed(task) ==
    LET next == [task EXCEPT !.iter = Tail(@), !.keys = Append(@, Head(task.iter))]
    IN  IF next.iter = <<>> THEN KeysDrained(next) ELSE next

\* One iteration of the loop over keys is over.
KeyFetched(task) ==
    [task EXCEPT !.keys = Tail(@),
                 !.getWhileOpen = @ \/ task.iterOpen,
                 !.pc = IF Tail(task.keys) = <<>> THEN "watchOpen" ELSE "gets"]

\* An update applied to map key a, as the claims speak of it.
Applied(hist, a, src, online, seq) ==
    [hist EXCEPT ![a] = Append(@, [src |-> src, online |-> online, seq |-> seq])]

\* Presence task: js.views.kv('MESH-PRESENCE') and kv.keys() answer, or
\* throw (the task ends in its catch block).
PresenceKvOpen(err) ==
    /\ pTask.pc = "kv"
    /\ pTask' = IF err THEN [pTask EXCEPT !.pc = "failed"]
                ELSE KeysOpened(pTask, KeysOf(presenceKv, NoValue))
    /\ UNCHANGED <<xClient, sessionVars, presenceKv, presence, presenceCache,
                   pWatchQ, pSubQ, evGen, pHist, pOrder, telemetryVars>>

PresenceKeysNext ==
    /\ pTask.pc = "keys"
    /\ pTask.iter # <<>>
    /\ pTask' = KeyPushed(pTask)
    /\ UNCHANGED <<xClient, sessionVars, presenceKv, presence, presenceCache,
                   pWatchQ, pSubQ, evGen, pHist, pOrder, telemetryVars>>

\* Presence task: kv.get(key) answers and the entry is set in the store.
\* A key deleted since the listing has no value: the entry is skipped, or
\* its empty value does not parse and the task ends in its catch block.
PresenceGet(throws) ==
    /\ pTask.pc = "gets"
    /\ LET key == Head(pTask.keys)
           data == presenceKv[key]
       IN  /\ throws => data = NoValue
           /\ IF data = NoValue
              THEN /\ pTask' = IF throws THEN [pTask EXCEPT !.pc = "failed"]
                               ELSE KeyFetched(pTask)
                   /\ UNCHANGED <<presence, presenceCache, pHist, pOrder>>
              ELSE LET info == InfoOfKv(key, data)
                       target == OrElse(data.name, key)
                       newer == /\ pHist[target] # <<>>
                                /\ pHist[target][Len(pHist[target])].src
                                      \in {"watch", "fallback"}
                                /\ pHist[target][Len(pHist[target])].seq
                                      > data.seq
                   IN  /\ pTask' = KeyFetched(pTask)
                       /\ presence' = ApplySnapshot(presence, info)
                       /\ presenceCache' = presence'
                       /\ pHist' = Applied(pHist, target, "snapshot",
                                           data.status # "offline", data.seq)
                       /\ pOrder' = [pOrder EXCEPT !.stale = @ \/ newer]
    /\ UNCHANGED <<xClient, sessionVars, presenceKv, pWatchQ, pSubQ, evGen,
                   telemetryVars>>

\* Presence task: kv.watch() answers; entries put or deleted from now on
\* are delivered.
PresenceWatchOpen ==
    /\ pTask.pc = "watchOpen"
    /\ pTask' = [pTask EXCEPT !.pc = "watch"]
    /\ UNCHANGED <<xClient, sessionVars, presenceKv, presence, presenceCache,
                   pWatchQ, pSubQ, evGen, pHist, pOrder, telemetryVars>>

\* Presence task: one iteration of the watch loop.
PresenceWatchEntry ==
    /\ pTask.pc = "watch"
    /\ pWatchQ # <<>>
    /\ LET entry == Head(pWatchQ)
           isDel == entry.op \in {"DEL", "PURGE"}
           target == IF isDel THEN entry.key
                     ELSE OrElse(entry.value.name, entry.key)
       IN  /\ presence' = ApplyWatch(presence, entry)
           /\ presenceCache' = presence'
           /\ pHist' = Applied(pHist, target, "watch",
                               ~isDel /\ entry.value.status # "offline",
                               entry.seq)
    /\ pWatchQ' = Tail(pWatchQ)
    /\ UNCHANGED <<xClient, sessionVars, presenceKv, pTask, pSubQ, evGen,
                   pOrder, telemetryVars>>

\* One iteration of the presenceSub loop.
PresenceMsg ==
    /\ pSubQ # <<>>
    /\ \E i \in 1..Len(cSubs) : cSubs[i] = "presence"
    /\ LET msg == Head(pSubQ)
       IN  /\ presence' = ApplyFallback(presence, msg)
           /\ presenceCache' = presence'
           /\ pHist' = Applied(pHist, msg.subject[Len(msg.subject)],
                               "fallback", msg.status # "offline", msg.seq)
    /\ pSubQ' = Tail(pSubQ)
    /\ pOrder' = [pOrder EXCEPT
                     !.early = @ \/ pTask.pc \in {"kv", "keys", "gets"}]
    /\ UNCHANGED <<xClient, sessionVars, presenceKv, pTask, pWatchQ, evGen,
                   telemetryVars>>

\* An agent puts its presence under a key of MESH-PRESENCE.
AgentPut(key, data) ==
    /\ evGen < MaxEvents
    /\ evGen' = evGen + 1
    /\ LET value == [name |-> data.name, status |-> data.status,
                     seq |-> evGen + 1]
       IN  /\ presenceKv' = [presenceKv EXCEPT ![key] = value]
           /\ pWatchQ' = IF pTask.pc = "watch"
                         THEN Append(pWatchQ, [op |-> "PUT", key |-> key,
                                               value |-> value,
                                               seq |-> evGen + 1])
                         ELSE pWatchQ
    /\ UNCHANGED <<xClient, sessionVars, presence, presenceCache, pTask, pSubQ,
                   pHist, pOrder, telemetryVars>>

\* A key of MESH-PRESENCE is deleted or purged.
AgentDelete(key, op) ==
    /\ evGen < MaxEvents
    /\ presenceKv[key] # NoValue
    /\ evGen' = evGen + 1
    /\ presenceKv' = [presenceKv EXCEPT ![key] = NoValue]
    /\ pWatchQ' = IF pTask.pc = "watch"
                  THEN Append(pWatchQ, [op |-> op, key |-> key,
                                        value |-> NoValue, seq |-> evGen + 1])
                  ELSE pWatchQ
    /\ UNCHANGED <<xClient, sessionVars, presence, presenceCache, pTask, pSubQ,
                   pHist, pOrder, telemetryVars>>

\* An agent publishes its presence on mesh.presence.<agent>; the client
\* receives it if presenceSub is open.
AgentPublish(agent, status) ==
    /\ evGen < MaxEvents
    /\ evGen' = evGen + 1
    /\ pSubQ' = IF \E i \in 1..Len(cSubs) : cSubs[i] = "presence"
                THEN Append(pSubQ, [subject |-> <<"mesh", "presence", agent>>,
                                    status |-> status, seq |-> evGen + 1])
                ELSE pSubQ
    /\ UNCHANGED <<xClient, sessionVars, presenceKv, presence, presenceCache,
                   pTask, pWatchQ, pHist, pOrder, telemetryVars>>

\* Telemetry task: js.views.kv('MESH-TELEMETRY') and kv.keys() answer, or
\* throw.  With no key the value loop is empty and the store's subscriber
\* is registered at once (it saves the store as it is).
TelemetryKvOpen(err) ==
    /\ tTask.pc = "kv"
    /\ LET opened == KeysOpened(tTask, KeysOf(telemetryKv, NoTelemetry))
       IN  IF err
           THEN /\ tTask' = [tTask EXCEPT !.pc = "failed"]
                /\ UNCHANGED <<tPersist, telemetryCache>>
           ELSE /\ tTask' = opened
                /\ tPersist' = (tPersist \/ opened.pc = "watchOpen")
                /\ telemetryCache' = IF opened.pc = "watchOpen"
                                     THEN telemetry ELSE telemetryCache
    /\ UNCHANGED <<xClient, sessionVars, presenceVars, telemetryKv, telemetry,
                   tWatchQ, tSubQ, tGen, tHist>>

TelemetryKeysNext ==
    /\ tTask.pc = "keys"
    /\ tTask.iter # <<>>
    /\ tTask' = KeyPushed(tTask)
    /\ UNCHANGED <<xClient, sessionVars, presenceVars, telemetryKv, telemetry,
                   telemetryCache, tPersist, tWatchQ, tSubQ, tGen, tHist>>

\* Telemetry task: kv.get(key) answers and the payload is set in the
\* store; after the last key the store's subscriber is registered.
TelemetryGet ==
    /\ tTask.pc = "gets"
    /\ LET key == Head(tTask.keys)
           raw == telemetryKv[key]
           next == KeyFetched(tTask)
           map == IF raw = NoTelemetry THEN telemetry
                  ELSE [telemetry EXCEPT ![ToPayload(raw).agent] = ToPayload(raw)]
       IN  /\ tTask' = next
           /\ telemetry' = map
           /\ tPersist' = (tPersist \/ next.pc = "watchOpen")
           /\ telemetryCache' = IF tPersist \/ next.pc = "watchOpen"
                                THEN map ELSE telemetryCache
           /\ tHist' = IF raw = NoTelemetry THEN tHist
                       ELSE [tHist EXCEPT ![ToPayload(raw).agent] =
                                [src |-> "snapshot", raw |-> raw]]
    /\ UNCHANGED <<xClient, sessionVars, presenceVars, telemetryKv, tWatchQ,
                   tSubQ, tGen>>

\* Telemetry published or written while the page runs: a KV summary of a,
\* and full payloads of a and b.
TelemetryUpdates ==
    { [agent |-> "a", sessions |-> NoSessions, sessionCount |-> 1,
       activeCount |-> 1, ts |-> 3],
      [agent |-> "a", sessions |-> [total |-> 4, active |-> 2],
       sessionCount |-> 0 - 1, activeCount |-> 0 - 1, ts |-> 4],
      [agent |-> "b", sessions |-> [total |-> 5, active |-> 0],
       sessionCount |-> 0 - 1, activeCount |-> 0 - 1, ts |-> 5] }

\* The payloads agents publish on mesh.telemetry.<agent>: full ones.
TelemetryMsgs == { d \in TelemetryUpdates : d.sessions # NoSessions }

TelemetrySet_Merge(map, data) ==
    [map EXCEPT ![data.agent] =
        IF map[data.agent] # NoTelemetry /\ data.ts < map[data.agent].ts
        THEN map[data.agent] ELSE data]

\* next.set(data.agent, data)
TelemetrySet(map, data) == [map EXCEPT ![data.agent] = data]

\* An agent puts its telemetry under its key of MESH-TELEMETRY.
AgentTelemetryPut(raw) ==
    /\ tGen < MaxTelemetry
    /\ tGen' = tGen + 1
    /\ telemetryKv' = [telemetryKv EXCEPT ![raw.agent] = raw]
    /\ tWatchQ' = IF tTask.pc = "watch"
                  THEN Append(tWatchQ, [op |-> "PUT", key |-> raw.agent,
                                        value |-> raw])
                  ELSE tWatchQ
    /\ UNCHANGED <<xClient, sessionVars, presenceVars, telemetry,
                   telemetryCache, tTask, tPersist, tSubQ, tHist>>

\* A key of MESH-TELEMETRY is deleted or purged.
AgentTelemetryDelete(key, op) ==
    /\ tGen < MaxTelemetry
    /\ telemetryKv[key] # NoTelemetry
    /\ tGen' = tGen + 1
    /\ telemetryKv' = [telemetryKv EXCEPT ![key] = NoTelemetry]
    /\ tWatchQ' = IF tTask.pc = "watch"
                  THEN Append(tWatchQ, [op |-> op, key |-> key,
                                        value |-> NoTelemetry])
                  ELSE tWatchQ
    /\ UNCHANGED <<xClient, sessionVars, presenceVars, telemetry,
                   telemetryCache, tTask, tPersist, tSubQ, tHist>>

\* An agent publishes its telemetry on mesh.telemetry.<agent>; the client
\* receives it if telemetrySub is open.
AgentTelemetryPublish(data) ==
    /\ tGen < MaxTelemetry
    /\ tGen' = tGen + 1
    /\ tSubQ' = IF \E i \in 1..Len(cSubs) : cSubs[i] = "telemetry"
                THEN Append(tSubQ, data) ELSE tSubQ
    /\ UNCHANGED <<xClient, sessionVars, presenceVars, telemetryKv, telemetry,
                   telemetryCache, tTask, tPersist, tWatchQ, tHist>>

\* Telemetry task: one iteration of the watch loop.
TelemetryWatchEntry ==
    /\ tTask.pc = "watch"
    /\ tWatchQ # <<>>
    /\ tWatchQ' = Tail(tWatchQ)
    /\ LET entry == Head(tWatchQ)
       IN  IF entry.op \in {"DEL", "PURGE"}
           THEN /\ telemetry' = [telemetry EXCEPT ![entry.key] = NoTelemetry]
                /\ tHist' = [tHist EXCEPT ![entry.key] =
                                [src |-> "delete", raw |-> NoTelemetry]]
           ELSE /\ telemetry' = TelemetrySet(telemetry, ToPayload(entry.value))
                /\ tHist' = [tHist EXCEPT ![entry.value.agent] =
                                [src |-> "watch", raw |-> entry.value]]
    /\ telemetryCache' = IF tPersist THEN telemetry' ELSE telemetryCache
    /\ UNCHANGED <<xClient, sessionVars, presenceVars, telemetryKv, tTask,
                   tPersist, tSubQ, tGen>>

\* One iteration of the telemetrySub loop.
TelemetryMsg ==
    /\ tSubQ # <<>>
    /\ \E i \in 1..Len(cSubs) : cSubs[i] = "telemetry"
    /\ tSubQ' = Tail(tSubQ)
    /\ telemetry' = TelemetrySet(telemetry, Head(tSubQ))
    /\ tHist' = [tHist EXCEPT ![Head(tSubQ).agent] =
                    [src |-> "pubsub", raw |-> Head(tSubQ)]]
    /\ telemetryCache' = IF tPersist THEN telemetry' ELSE telemetryCache
    /\ UNCHANGED <<xClient, sessionVars, presenceVars, telemetryKv, tTask,
                   tPersist, tWatchQ, tGen>>

\* Telemetry task: kv.watch() answers.
TelemetryWatchOpen ==
    /\ tTask.pc = "watchOpen"
    /\ tTask' = [tTask EXCEPT !.pc = "watch"]
    /\ UNCHANGED <<xClient, sessionVars, presenceVars, telemetryKv, telemetry,
                   telemetryCache, tPersist, tWatchQ, tSubQ, tGen, tHist>>

\* --------------------------------------------------- history specification
InitHistory ==
    /\ log \in InjSeqs(Payloads, MaxLog)
    /\ now = 0
    /\ HistInit
    /\ PageInit
    /\ SearchInit
    /\ MembersInit
    /\ RateInit
    /\ ClientInit

NextHistory ==
    \E b \in {NoBefore} \cup (0..(MaxTs + 1)), l \in 0..MaxLimit,
       c \in Channels, err \in BOOLEAN :
       FetchHistoryCall(b, l, c, err)

SpecHistory == InitHistory /\ [][NextHistory]_vars

\* --------------------------------------------- history route specification
\* One GET /api/history on a stream of any content.
InitHistoryRoute ==
    /\ log \in InjSeqs(Payloads, MaxLog)
    /\ now = 0
    /\ HistInit
    /\ PageInit
    /\ SearchInit
    /\ MembersInit
    /\ LiveKeys(membersKv) = {}
    /\ RateInit
    /\ ClientInit

NextHistoryRoute ==
    \E q \in HistoryQueries, fault \in Faults : HistoryRequest(q, fault)

SpecHistoryRoute == InitHistoryRoute /\ [][NextHistoryRoute]_vars

\* ---------------------------------------------------- scans specification
\* No scan of the stream has been started.
NoScanYet == histCall = NoCall /\ sPc = "idle" /\ rGets = 0

\* One scan of a stream of any content: a fetchHistory call, a search or a
\* seedMembersFromHistory call on an empty bucket, with no time passing.
InitScans ==
    /\ log \in InjSeqs(Payloads, MaxLog)
    /\ now = 0
    /\ HistInit
    /\ PageInit
    /\ SearchInit
    /\ MembersInit
    /\ LiveKeys(membersKv) = {}
    /\ RateInit
    /\ ClientInit

NextScans ==
    \/ /\ NoScanYet
       /\ \E b \in {NoBefore} \cup (0..(MaxTs + 1)), l \in 0..MaxLimit,
             c \in Channels, err \in BOOLEAN :
             FetchHistoryCall(b, l, c, err)
    \/ /\ NoScanYet
       /\ \E q \in Queries, c \in Subjects, err \in BOOLEAN :
             SearchStart(q, c, err)
    \/ SearchStep
    \/ SearchEnd
    \/ /\ NoScanYet
       /\ \E c \in Channels, err \in BOOLEAN : SeedCall("p1", c, err)
    \/ SeedNext("p1")
    \/ AddGet("p1")
    \/ AddPut("p1")

SpecScans == InitScans /\ [][NextScans]_vars

\* ------------------------------------------------ pagination specification
InitPaging ==
    /\ log \in InjSeqs(Payloads, MaxLog)
    /\ now = 0
    /\ HistInit
    /\ PageInit
    /\ SearchInit
    /\ MembersInit
    /\ RateInit
    /\ ClientInit

NextPaging ==
    \/ \E err \in BOOLEAN : ClientInitialLoad(err)
    \/ LoadMoreStart
    \/ \E err \in BOOLEAN : LoadMoreDone(err)

SpecPaging == InitPaging /\ [][NextPaging]_vars

\* ---------------------------------------------------- search specification
InitSearch ==
    /\ log \in InjSeqs(Payloads, MaxLog)
    /\ now = 0
    /\ HistInit
    /\ PageInit
    /\ SearchInit
    /\ MembersInit
    /\ RateInit
    /\ ClientInit

NextSearch ==
    \/ \E q \in Queries, c \in Subjects, err \in BOOLEAN : SearchStart(q, c, err)
    \/ SearchStep
    \/ SearchEnd
    \/ TickSearch

SpecSearch == InitSearch /\ [][NextSearch]_vars

\* ------------------------------------------------ membership specification
InitMembers ==
    /\ log = <<>>
    /\ now = 0
    /\ HistInit
    /\ PageInit
    /\ SearchInit
    /\ MembersInit
    /\ RateInit
    /\ ClientInit

NextMembers ==
    \/ \E p \in Procs, c \in Channels : ListStart(p, c)
    \/ \E p \in Procs : ListKeysNext(p)
    \/ \E p \in Procs : ListGet(p)
    \/ \E p \in Procs, c \in Channels, n \in Names, t \in MemberTypes :
          AddStart(p, c, n, t)
    \/ \E p \in Procs : AddGet(p)
    \/ \E p \in Procs : AddPut(p)
    \/ \E p \in Procs, c \in Channels, n \in Names : RemoveCall(p, c, n)
    \/ TickMembers

SpecMembers == InitMembers /\ [][NextMembers]_vars

\* --------------------------------------- server connection specification
\* Request handlers of the server calling getNatsConnection side by side.
InitServerConn ==
    /\ log = <<>>
    /\ now = 0
    /\ HistInit
    /\ PageInit
    /\ SearchInit
    /\ MembersInit
    /\ membersKv = [k \in MemberKeys |-> Absent]
    /\ RateInit
    /\ ClientInit

NextServerConn ==
    \/ \E p \in Procs : GetConnStart(p)
    \/ \E p \in Procs : GetConnOk(p)
    \/ \E p \in Procs : GetConnFail(p)
    \/ \E c \in 1..MaxServerConns : ServerConnClosed(c)

SpecServerConn == InitServerConn /\ [][NextServerConn]_vars

\* ------------------------------------------------ isolation specification
\* Membership calls for channels whose names share a prefix.
InitIsolation ==
    /\ log = <<>>
    /\ now = 0
    /\ HistInit
    /\ PageInit
    /\ SearchInit
    /\ MembersInit
    /\ membersKv = [k \in MemberKeys |-> Absent]
    /\ RateInit
    /\ ClientInit

NextIsolation ==
    \/ \E p \in Procs, c \in MemberChannels : ListStart(p, c)
    \/ \E p \in Procs : ListKeysNext(p)
    \/ \E p \in Procs : ListGet(p)
    \/ \E p \in Procs, c \in MemberChannels, n \in Names, t \in MemberTypes :
          AddStart(p, c, n, t)
    \/ \E p \in Procs : AddGet(p)
    \/ \E p \in Procs : AddPut(p)
    \/ \E p \in Procs, c \in MemberChannels, n \in Names : RemoveCall(p, c, n)

SpecIsolation == InitIsolation /\ [][NextIsolation]_vars

\* ------------------------------------------------- POST send specification
InitRate ==
    /\ log = <<>>
    /\ now = 0
    /\ HistInit
    /\ PageInit
    /\ SearchInit
    /\ MembersInit
    /\ membersKv = [k \in MemberKeys |-> Absent]
    /\ RateInit
    /\ ClientInit

NextRate ==
    \/ \E u \in Users \cup {NoUser}, b \in Bodies : POST(u, b)
    \/ \E p \in Procs : AddSpawned(p)
    \/ \E p \in Procs : AddGet(p)
    \/ \E p \in Procs : AddPut(p)
    \/ TickRate

SpecRate == InitRate /\ [][NextRate]_vars

\* -------------------------------------------------- presence specification
InitPresence ==
    /\ log = <<>>
    /\ now = 0
    /\ HistInit
    /\ PageInit
    /\ SearchInit
    /\ MembersInit
    /\ membersKv = [k \in MemberKeys |-> Absent]
    /\ RateInit
    /\ SessionInit
    /\ \E kv \in InitialPresenceKv, cached \in InitialPresence :
          PresenceInit(kv, cached)
    /\ TelemetryInit(EmptyTelemetry, EmptyTelemetry)

NextPresence ==
    \/ \E u \in UserNames : ConnectStart(u)
    \/ ConnectFail
    \/ ConnectOk
    \/ \E err \in BOOLEAN : PresenceKvOpen(err)
    \/ PresenceKeysNext
    \/ \E throws \in BOOLEAN : PresenceGet(throws)
    \/ PresenceWatchOpen
    \/ PresenceWatchEntry
    \/ PresenceMsg
    \/ \E k \in Agents, d \in PresenceData : AgentPut(k, d)
    \/ \E k \in Agents, op \in {"DEL", "PURGE"} : AgentDelete(k, op)
    \/ \E a \in Agents, st \in FallbackStatuses : AgentPublish(a, st)

SpecPresence == InitPresence /\ [][NextPresence]_vars

\* ----------------------------------------------- enumeration specification
\* The three enumerations of KV buckets, side by side.
InitEnum ==
    /\ log = <<>>
    /\ now = 0
    /\ HistInit
    /\ PageInit
    /\ SearchInit
    /\ MembersInit
    /\ RateInit
    /\ SessionInit
    /\ \E kv \in InitialPresenceKv : PresenceInit(kv, EmptyPresence)
    /\ \E kv \in InitialTelemetryKv, cached \in InitialTelemetryCache :
          TelemetryInit(kv, cached)

NextEnum ==
    \/ \E u \in UserNames : ConnectStart(u)
    \/ ConnectFail
    \/ ConnectOk
    \/ \E err \in BOOLEAN : PresenceKvOpen(err)
    \/ PresenceKeysNext
    \/ \E throws \in BOOLEAN : PresenceGet(throws)
    \/ PresenceWatchOpen
    \/ \E err \in BOOLEAN : TelemetryKvOpen(err)
    \/ TelemetryKeysNext
    \/ TelemetryGet
    \/ TelemetryWatchOpen
    \/ \E p \in Procs, c \in Channels : ListStart(p, c)
    \/ \E p \in Procs : ListKeysNext(p)
    \/ \E p \in Procs : ListGet(p)

SpecEnum == InitEnum /\ [][NextEnum]_vars

\* --------------------------------------------------- session specification
\* The connection of one page: connectNats, the link to the server, the
\* status monitor, the live channel and disconnectNats.
InitSession ==
    /\ log = <<>>
    /\ now = 0
    /\ HistInit
    /\ PageInit
    /\ SearchInit
    /\ MembersInit
    /\ RateInit
    /\ ClientInit

NextSession ==
    \/ \E u \in UserNames : ConnectStart(u)
    \/ ConnectFail
    \/ ConnectOk
    \/ ServerDown
    \/ ServerUp
    \/ LinkDown
    \/ LinkError
    \/ LinkRetryFail
    \/ LinkReconnect
    \/ MonitorStep
    \/ \E ok \in BOOLEAN : SeedFetched(ok)
    \/ DisconnectStart
    \/ DisconnectDone
    \/ TickSession

SpecSession == InitSession /\ [][NextSession]_vars

\* The session with its scheduling: a pending connect settles, the library
\* keeps retrying a broken link (maxReconnectAttempts: -1) and gets through
\* when the server is reachable again and again, the status monitor and a
\* pending fetch or drain run on, and an unreachable server comes back.
\* Nothing makes the page call connectNats or disconnectNats.
FairSession ==
    /\ WF_vars(ConnectOk \/ ConnectFail)
    /\ SF_vars(LinkReconnect)
    /\ WF_vars(MonitorStep)
    /\ WF_vars(\E ok \in BOOLEAN : SeedFetched(ok))
    /\ WF_vars(DisconnectDone)
    /\ WF_vars(ServerUp)

SpecReconnect == InitSession /\ [][NextSession]_vars /\ FairSession

\* ------------------------------------------------ heartbeat specification
\* The session with its heartbeat timer, in steps of one interval.
InitHeartbeat ==
    /\ log = <<>>
    /\ now = 0
    /\ HistInit
    /\ PageInit
    /\ SearchInit
    /\ MembersInit
    /\ RateInit
    /\ ClientInit

NextHeartbeat ==
    \/ \E u \in UserNames : ConnectStart(u)
    \/ ConnectFail
    \/ ConnectOk
    \/ LinkDown
    \/ LinkReconnect
    \/ MonitorStep
    \/ \E ok \in BOOLEAN : SeedFetched(ok)
    \/ DisconnectStart
    \/ DisconnectDone
    \/ \E i \in 1..MaxConns : HeartbeatTick(i)
    \/ TickBeat

SpecHeartbeat == InitHeartbeat /\ [][NextHeartbeat]_vars

\* --------------------------------------------------- bridge specification
\* Session bridge calls of the page over the life of its connection.
InitBridge ==
    /\ log = <<>>
    /\ now = 0
    /\ HistInit
    /\ PageInit
    /\ SearchInit
    /\ MembersInit
    /\ RateInit
    /\ ClientInit

NextBridge ==
    \/ ConnectStart("")
    \/ ConnectOk
    \/ DisconnectStart
    \/ DisconnectDone
    \/ \E op \in {"history", "send"} : BridgeCall(op)
    \/ \E reply \in BridgeReplies : BridgeReply(reply)
    \/ BridgeTimeout
    \/ BridgeClosed
    \/ TickBridge

SpecBridge == InitBridge /\ [][NextBridge]_vars

\* ----------------------------------------------------- seed specification
\* The payload of an id.
PayloadOf(id) == CHOOSE m \in Payloads : m.id = id

\* The streams seeding is run on: empty, senders repeating among entries
\* that are skipped, and a sender beyond the fetch cap.
SeedLogs ==
    { [i \in 1..Len(ids) |-> PayloadOf(ids[i])] :
        ids \in { <<>>, <<1, 5, 6, 2, 3>>, <<7, 2, 4, 3, 1>>, <<1, 3, 7, 4>> } }

\* seedMembersFromHistory calls for the channels, side by side.
InitSeed ==
    /\ log \in SeedLogs
    /\ now = 0
    /\ HistInit
    /\ PageInit
    /\ SearchInit
    /\ MembersInit
    /\ RateInit
    /\ ClientInit

NextSeed ==
    \/ \E p \in Procs, c \in Channels, err \in BOOLEAN : SeedCall(p, c, err)
    \/ \E p \in Procs : SeedNext(p)
    \/ \E p \in Procs : AddGet(p)
    \/ \E p \in Procs : AddPut(p)
    \/ TickMembers

SpecSeed == InitSeed /\ [][NextSeed]_vars

\* -------------------------------------------- members route specification
\* The body POST send accepts.
ValidBody == [text |-> <<"a">>, subject |-> <<"mesh", "channel", "general">>]

\* POST send and GET /api/members side by side, on a bucket without members
\* or with earlier ones.
InitRoute ==
    /\ log \in { l \in SeedLogs : Len(l) <= 4 }
    /\ now = 0
    /\ HistInit
    /\ PageInit
    /\ SearchInit
    /\ MembersInit
    /\ RateInit
    /\ ClientInit

NextRoute ==
    \/ \E u \in { v \in Users : v.name = "alice" } : POST(u, ValidBody)
    \/ \E p \in Procs : AddSpawned(p)
    \/ \E p \in Procs : AddGet(p)
    \/ \E p \in Procs : AddPut(p)
    \/ \E p \in Procs : RouteGet(p, <<"general">>)
    \/ \E p \in Procs : ListKeysNext(p)
    \/ \E p \in Procs : ListGet(p)
    \/ \E p \in Procs, err \in BOOLEAN : RouteExisting(p, err)
    \/ \E p \in Procs : SeedNext(p)
    \/ \E p \in Procs : RouteMembers(p)

SpecRoute == InitRoute /\ [][NextRoute]_vars

\* ------------------------------------------------ telemetry specification
\* One session with its telemetry task, its watch and telemetrySub, and
\* agents writing and publishing telemetry.
InitTelemetry ==
    /\ log = <<>>
    /\ now = 0
    /\ HistInit
    /\ PageInit
    /\ SearchInit
    /\ MembersInit
    /\ RateInit
    /\ SessionInit
    /\ PresenceInit(EmptyPresenceKv, EmptyPresence)
    /\ \E kv \in InitialTelemetryKv, cached \in InitialTelemetryCache :
          TelemetryInit(kv, cached)

NextTelemetry ==
    \/ ConnectStart("")
    \/ ConnectFail
    \/ ConnectOk
    \/ \E err \in BOOLEAN : TelemetryKvOpen(err)
    \/ TelemetryKeysNext
    \/ TelemetryGet
    \/ TelemetryWatchOpen
    \/ TelemetryWatchEntry
    \/ TelemetryMsg
    \/ \E raw \in TelemetryUpdates : AgentTelemetryPut(raw)
    \/ \E k \in Agents, op \in {"DEL", "PURGE"} : AgentTelemetryDelete(k, op)
    \/ \E d \in TelemetryMsgs : AgentTelemetryPublish(d)

SpecTelemetry == InitTelemetry /\ [][NextTelemetry]_vars

\* ------------------------------------------------- teardown specification
\* A session with its presence task, agents writing and publishing
\* presence, and disconnectNats.
InitTeardown ==
    /\ log = <<>>
    /\ now = 0
    /\ HistInit
    /\ PageInit
    /\ SearchInit
    /\ MembersInit
    /\ RateInit
    /\ SessionInit
    /\ \E kv \in InitialPresenceKv : PresenceInit(kv, EmptyPresence)
    /\ TelemetryInit(EmptyTelemetry, EmptyTelemetry)

\* One page instance: onMount calls connectNats, onDestroy calls
\* disconnectNats, and a destroyed page is not mounted again.
PageMount(userName) == ~cTrace.explicit /\ ConnectStart(userName)

PageDestroy == ~cTrace.explicit /\ DisconnectStart

NextTeardown ==
    \/ \E u \in UserNames : PageMount(u)
    \/ ConnectFail
    \/ ConnectOk
    \/ \E err \in BOOLEAN : PresenceKvOpen(err)
    \/ PresenceKeysNext
    \/ \E throws \in BOOLEAN : PresenceGet(throws)
    \/ PresenceWatchOpen
    \/ PresenceWatchEntry
    \/ PresenceMsg
    \/ \E k \in Agents, d \in PresenceData : AgentPut(k, d)
    \/ \E a \in Agents, st \in FallbackStatuses : AgentPublish(a, st)
    \/ PageDestroy
    \/ DisconnectDone

SpecTeardown == InitTeardown /\ [][NextTeardown]_vars

\* ------------------------------------------------- live feed specification
\* The live channel of the page across connects, reconnects and disconnects.
InitFeed ==
    /\ log = <<>>
    /\ now = 0
    /\ HistInit
    /\ PageInit
    /\ SearchInit
    /\ MembersInit
    /\ RateInit
    /\ ClientInit

NextFeed ==
    \/ ConnectStart("")
    \/ ConnectOver("")
    \/ ConnectFail
    \/ ConnectOk
    \/ LinkDown
    \/ LinkError
    \/ LinkReconnect
    \/ MonitorStep
    \/ DisconnectStart
    \/ DisconnectDone
    \/ \E p \in LivePayloads : ChannelPublish(p)
    \/ ChannelMsg

SpecFeed == InitFeed /\ [][NextFeed]_vars

\* ----------------------------------------------------- view specification
\* The page: the history load of onMount, then connectNats; the live feed,
\* channel switches and loadMore from then on.
InitView ==
    /\ log \in InjSeqs({ p \in Payloads : p.id \in {2, 3} }, 2)
    /\ now = 0
    /\ HistInit
    /\ PageInit
    /\ SearchInit
    /\ MembersInit
    /\ membersKv = [k \in MemberKeys |-> Absent]
    /\ RateInit
    /\ ClientInit

MountConnect ==
    /\ cPhase = "ready"
    /\ ConnectStart("")

NextView ==
    \/ \E err \in BOOLEAN : ClientInitialLoad(err)
    \/ MountConnect
    \/ ConnectOk
    \/ \E p \in { q \in Payloads : q.id \in {1, 4} } : StreamPublish(p)
    \/ ChannelMsg
    \/ \E c \in Channels : SwitchChannelStart(c)
    \/ \E err \in BOOLEAN : SwitchChannelDone(err)
    \/ LoadMoreStart
    \/ \E err \in BOOLEAN : LoadMoreDone(err)

SpecView == InitView /\ [][NextView]_vars

\* ------------------------------------------------------------------ C1, C2
\* The version-1 envelopes in the stream under a subject.
SubjectEnvelopes(subject) ==
    { p \in Range(log) : p.subj = subject /\ p.kind = "v1" }

\* The version-1 envelopes of a channel in the stream.
ChannelEnvelopes(channel) == SubjectEnvelopes(ChannelSubject(channel))

\* The channel's log fits within the per-call scan cap.
FitsCap(channel) ==
    Cardinality({ p \in Range(log) : p.subj = ChannelSubject(channel) })
        <= MaxMessages

Ascending(s) == \A i, j \in 1..Len(s) : i < j => s[i].ts <= s[j].ts

NoRepeat(s) == \A i, j \in 1..Len(s) : i < j => s[i] # s[j]

\* C1: for a channel whose log fits within the scan cap, a call
\* fetchHistory(before = T, limit = L) with T > 0 and L >= 1 that meets no
\* stream error returns only version-1 envelopes of the channel with
\* ts < T, in ascending ts order, at most L of them and those with the
\* largest ts among the qualifying ones, and hasMore is true iff more than
\* L envelopes qualify; an empty channel yields ([], false).
C1_PageContract ==
    LET c == histCall
        Q == { p \in ChannelEnvelopes(c.channel) : p.ts < c.before }
        m == c.res.messages
    IN  (/\ c # NoCall /\ ~c.err
         /\ c.before > 0 /\ c.limit >= 1
         /\ FitsCap(c.channel))
        => /\ Range(m) \subseteq Q
           /\ \A i \in 1..Len(m) : m[i].ts < c.before
           /\ Ascending(m)
           /\ NoRepeat(m)
           /\ Len(m) = Min(c.limit, Cardinality(Q))
           /\ \A q \in Q \ Range(m) : \A i \in 1..Len(m) : q.ts <= m[i].ts
           /\ c.res.hasMore = (Cardinality(Q) > c.limit)
           /\ (ChannelEnvelopes(c.channel) = {} => c.res = EmptyPage)

\* A call that cuts a page out of more qualifying envelopes than the limit,
\* with envelopes at and after the cutoff left out.
C1_Witness ==
    /\ histCall # NoCall /\ ~histCall.err
    /\ histCall.before = 3 /\ histCall.limit = 1
    /\ FitsCap(histCall.channel)
    /\ histCall.res.hasMore
    /\ Len(histCall.res.messages) = 1
    /\ \E p \in ChannelEnvelopes(histCall.channel) : p.ts >= 3

\* C2: once backward pagination has run to hasMore = false without a failed
\* request, on a channel within the scan cap, the client holds every
\* version-1 envelope of the channel exactly once.
C2_GapFree ==
    (/\ cPhase = "ready" /\ ~cHasMore /\ ~cLoadingMore
     /\ ~cErr /\ FitsCap(<<"general">>))
    => /\ Range(cMessages) = ChannelEnvelopes(<<"general">>)
       /\ NoRepeat(cMessages)

\* ----------------------------------------------------------------- C9, C10
\* Q occurs in text under case-insensitive comparison.
ContainsCI(text, q) ==
    \E off \in 0..(Len(text) - Len(q)) :
        \A k \in 1..Len(q) : LowerChar(text[off + k]) = LowerChar(q[k])

\* The version-1 envelopes of the searched subject whose text contains the
\* query.
SearchMatches ==
    { p \in SubjectEnvelopes(sArgs.channel) : ContainsCI(p.text, sArgs.query) }

\* C9: when the search returns without a timeout (neither the deadline nor
\* the fetch expiry cut the scan, and nothing threw), total is the number N
\* of envelopes of the channel containing the query case-insensitively,
\* truncated is (N > MAX_RESULTS), and the results ascend by ts.
C9_SearchTotals ==
    (sPc = "done" /\ sTrace.ended = "drained")
    => /\ sRet.total = Cardinality(SearchMatches)
       /\ sRet.truncated = (Cardinality(SearchMatches) > MAX_RESULTS)
       /\ Ascending(sRet.results)

\* C10 as stated: the results never hold more than MAX_RESULTS envelopes, no
\* entry is examined once the deadline has elapsed, and a search during
\* whose scan the deadline elapsed returns truncated = true.
C10_SearchBounded ==
    /\ Len(sResults) <= MAX_RESULTS
    /\ Len(sRet.results) <= MAX_RESULTS
    /\ ~sTrace.lateExam
    /\ (/\ sPc = "done" /\ sTrace.ended # "error"
        /\ sTrace.endTime - sStartTime > TIMEOUT_MS)
       => sRet.truncated

\* C10 as amended: the results never hold more than MAX_RESULTS envelopes, no
\* entry is examined once the deadline has elapsed, and a search to whose
\* loop an entry is delivered after the deadline has elapsed returns, with
\* truncated = true, without examining it.
C10_SearchBoundedOnDelivery ==
    /\ Len(sResults) <= MAX_RESULTS
    /\ Len(sRet.results) <= MAX_RESULTS
    /\ ~sTrace.lateExam
    /\ sTrace.lateDelivery => (sPc = "done" /\ sRet.truncated)

\* A scan that examined entries, then had one delivered after the deadline.
C10_Witness ==
    /\ sPc = "done"
    /\ sTrace.lateDelivery
    /\ Len(sTrace.examined) >= 1
    /\ sPending # <<>>
    /\ sRet.truncated
    /\ sRet.total < Cardinality(SearchMatches)

\* ------------------------------------------------------------------ C6, C7
RECURSIVE ApplySelected(_, _, _, _)
\* The bucket after the mutations ops[i], i in sel, applied in their order.
ApplySelected(kv, ops, sel, i) ==
    IF i > Len(ops) THEN kv
    ELSE ApplySelected(
             IF i \in sel THEN [kv EXCEPT ![ops[i].key] = ops[i].val] ELSE kv,
             ops, sel, i + 1)

\* The records of a channel in a bucket.
MembersOf(kv, channel) ==
    { kv[k] : k \in { j \in LiveKeys(kv) : StartsWithPrefix(j, channel) } }

\* The selections of concurrent mutations that a serialization can place
\* before the enumeration: with a mutation, every earlier one on its key.
Cuts(ops) ==
    { sel \in SUBSET (1..Len(ops)) :
        \A i \in sel : \A j \in 1..(i - 1) :
            ops[j].key = ops[i].key => j \in sel }

WellFormed(body) ==
    /\ body.text # <<>>
    /\ Len(body.text) <= MAX_MESSAGE_SIZE
    /\ Len(body.subject) > 2
    /\ body.subject[1] = "mesh" /\ body.subject[2] = "channel"

\* C8: counting a sender's attempts from the first one of a window (the
\* first ever, or the first more than 60 s after the window began), attempt
\* number i <= RATE_LIMIT_MAX is not rejected by the limiter (a well-formed
\* one is accepted) and every later attempt of the window, the
\* (RATE_LIMIT_MAX + 1)-th in particular, is rejected with 429; the first
\* attempt after the window is attempt number 1 of a new window.
C8_RateLimiter ==
    \A e \in Emails :
        LET tr == rlTrace[e]
        IN  tr.n > 0
            => /\ tr.n <= RATE_LIMIT_MAX => tr.last # 429
               /\ (tr.n <= RATE_LIMIT_MAX /\ WellFormed(tr.body))
                     => tr.last = 200
               /\ tr.n > RATE_LIMIT_MAX => tr.last = 429

\* A sender was rejected in a window and, after that window, accepted again.
C8_Witness ==
    \E e \in Emails :
        /\ rlTrace[e].prevOver
        /\ rlTrace[e].n = 1
        /\ rlTrace[e].last = 200
        /\ rateLimitMap[e].count = 1

\* ------------------------------------------------------------------ C3, C4
SubOpen(name) == \E i \in 1..Len(cSubs) : cSubs[i] = name

\* C3: when the last update applied to an agent's map key came from the KV
\* watch or from the pub/sub fallback, the map holds the agent exactly if
\* that update said online (a put or message whose status is not offline),
\* and then holds that update's record; what the snapshot or an earlier
\* update of either source said does not matter.
C3_LastEventWins ==
    \A a \in Agents :
        LET h == pHist[a]
        IN  (h # <<>> /\ h[Len(h)].src \in {"watch", "fallback"})
            => /\ (presence[a] # NoInfo) = h[Len(h)].online
               /\ h[Len(h)].online
                     => /\ presence[a].seq = h[Len(h)].seq
                        /\ presence[a].agent = a
                        /\ presence[a].status # "offline"

\* The snapshot delivered a online, a watch put said offline, then a
\* fallback message said online: a is in the map.
C3_Witness ==
    \E a \in Agents :
        LET h == pHist[a]
            n == Len(h)
        IN  /\ n >= 3
            /\ h[n - 2].src = "snapshot" /\ h[n - 2].online
            /\ h[n - 1].src = "watch" /\ ~h[n - 1].online
            /\ h[n].src = "fallback" /\ h[n].online
            /\ presence[a] # NoInfo

\* C4: while the snapshot load of a bucket is pending or running, the
\* pub/sub subscription of its map is not open and no live update has been
\* applied to the map; no snapshot value has been written over a newer
\* live update of the same agent.
C4_SnapshotBeforeLive ==
    /\ SubOpen("presence") => pTask.pc \notin {"kv", "keys", "gets"}
    /\ SubOpen("telemetry") => tTask.pc \notin {"kv", "keys", "gets"}
    /\ ~pOrder.early
    /\ ~pOrder.stale

\* ---------------------------------------------------------------------- C5
\* C5: no enumeration of a bucket (getChannelMembers, the presence
\* snapshot, the telemetry snapshot) has issued a kv.get while its key
\* iterator was open: the iterator is closed whenever a value loop runs.
C5_TwoPhase ==
    /\ \A p \in Procs :
          /\ ~mProc[p].getWhileOpen
          /\ mProc[p].pc = "gets" => ~mProc[p].iterOpen
    /\ ~pTask.getWhileOpen
    /\ pTask.pc = "gets" => ~pTask.iterOpen
    /\ ~tTask.getWhileOpen
    /\ tTask.pc = "gets" => ~tTask.iterOpen

\* The three enumerations have run over buckets of two keys each and have
\* fetched every value.
C5_Witness ==
    /\ \E p \in Procs :
          /\ mProc[p].op = "list" /\ mProc[p].done
          /\ mProc[p].members # <<>>
    /\ pTask.pc \in {"watchOpen", "watch"}
    /\ \A a \in Agents : presence[a] # NoInfo
    /\ tTask.pc \in {"watchOpen", "watch"}
    /\ \A a \in Agents : telemetry[a] # NoTelemetry
\* --------------------------------------------------------------------- C11
\* The status changes the claim allows.
StatusEdges ==
    { <<"disconnected", "connecting">>, <<"connecting", "connected">>,
      <<"connected", "disconnected">>, <<"connecting", "disconnected">> }

\* C11: connectionStatus changes only along disconnected -> connecting ->
\* connected -> disconnected -> connecting (a failed connect going from
\* connecting to disconnected); it never goes from disconnected to connected
\* without passing through connecting.
C11_StatusEdges ==
    [][cStatus' # cStatus => <<cStatus, cStatus'>> \in StatusEdges]_vars

\* --------------------------------------------------------------------- C12
\* C12: whenever the status is disconnected because of a connection failure
\* (a failed connect, a 'disconnect' or an 'error' of the connection) and
\* disconnectNats has not been called, the status becomes connected again
\* (or disconnectNats is called) without the page calling connectNats.
C12_AutoReconnect ==
    (cStatus = "disconnected" /\ cTrace.failed /\ ~cTrace.explicit)
        ~> (cStatus = "connected" \/ cTrace.explicit)

\* --------------------------------------------------------------------- C13
\* C13: a reconnect never authenticates with a credential whose expiresAt
\* has passed: when it has, a fresh credential is fetched before the
\* reconnect attempt and the attempt uses it.
C13_FreshOnReconnect ==
    cTrace.auth.kind = "reconnect" => ~cTrace.auth.stale

\* --------------------------------------------------------------------- C14
\* The envelopes among the published payloads (those JSON.parse accepts).
Parsed(q) == SelectSeqBy(q, { p \in LivePayloads : p.kind # "bad" })

\* a is b with some elements left out.
RECURSIVE IsSubSeq(_, _)
IsSubSeq(a, b) ==
    IF a = <<>> THEN TRUE
    ELSE IF b = <<>> THEN FALSE
    ELSE IF Head(a) = Head(b) THEN IsSubSeq(Tail(a), Tail(b))
    ELSE IsSubSeq(a, Tail(b))

\* C14: the messages list holds each envelope received on the live channel
\* at most once and in the order of delivery, and holds every one of them
\* once all deliveries are handled (disconnectNats not having been called),
\* across connects, errors and automatic reconnects.
C14_ExactlyOnce ==
    /\ IsSubSeq(cMessages, Parsed(cPublished))
    /\ (cChanQ = <<>> /\ ~cTrace.explicit) => cMessages = Parsed(cPublished)

\* --------------------------------------------------------------------- C15
\* A KV task that is still running.
Running(task) == task.pc \in {"kv", "keys", "gets", "watchOpen", "watch"}

C16_SenderListed ==
    \A p \in Procs :
        rReq[p].via = "get" /\ rReq[p].pc = "done" =>
            \A n \in rReq[p].owed :
                \E i \in 1..Len(rReq[p].out) :
                    /\ rReq[p].out[i].name = n
                    /\ rReq[p].out[i].type = "human"

\* --------------------------------------------------------------------- C17
\* The distinct senders of the version-1 envelopes of a scan.
Senders(scan) == { m.from : m \in { e \in Range(scan) : IsV1(e) /\ e.from # <<>> } }

\* The first envelope of a sender in a scan.
FirstOf(scan, name) ==
    scan[CHOOSE i \in 1..Len(scan) :
            /\ IsV1(scan[i]) /\ scan[i].from = name
            /\ \A j \in 1..(i - 1) : ~(IsV1(scan[j]) /\ scan[j].from = name)]

C18_NoOffline ==
    \A a \in Agents : presence[a].status # "offline"

\* --------------------------------------------------------------------- C19
\* The entry an update leaves in the map: none after a delete, the payload
\* itself, or the payload built from a KV summary alone.
EntryOf(update) ==
    IF update.src \in {"none", "delete"} THEN NoTelemetry
    ELSE IF update.src \in {"snapshot", "watch"} THEN ToPayload(update.raw)
    ELSE update.raw

\* C19: the telemetry map's entry of an agent is what the update applied
\* last for that agent gives by itself, whichever source it came from (the
\* snapshot, the KV watch or mesh.telemetry.>): nothing of an earlier
\* payload survives, and the entry sits under the agent it names.
C19_LastWriteWins ==
    \A a \in Agents :
        /\ telemetry[a] = EntryOf(tHist[a])
        /\ telemetry[a] # NoTelemetry => telemetry[a].agent = a

\* An agent's entry came from a watch put and was then replaced by a
\* pub/sub payload, or the other way round.
C19_Witness ==
    \E a \in Agents :
        /\ tHist[a].src \in {"watch", "pubsub"}
        /\ telemetry[a] # NoTelemetry
        /\ tGen = MaxTelemetry
        /\ tWatchQ = <<>> /\ tSubQ = <<>>
        /\ telemetryKv[a] # NoTelemetry
        /\ ToPayload(telemetryKv[a]) # telemetry[a]

\* --------------------------------------------------------------------- C20
\* C20: the presence cache equals the presence map, and once an update has
\* been applied to the telemetry map the telemetry cache equals the
\* telemetry map, whether or not the KV snapshot load succeeded.
C20_CacheFollows ==
    /\ presenceCache = presence
    /\ (\E a \in Agents : tHist[a].src \notin {"none", "cache"}) =>
           telemetryCache = telemetry

\* --------------------------------------------------------------------- C21
\* C21: while the status is connected on an open connection of a named
\* user, a heartbeat has been published on connecting and the last one is
\* no older than one interval; and no heartbeat is published after
\* disconnectNats has been called (until connectNats is called again).
C21_Heartbeat ==
    /\ ~hbTrace.late
    /\ (cStatus = "connected" /\ cConn = "open" /\ cUser # "") =>
          /\ hbTrace.last >= 0
          /\ now - hbTrace.last <= HEARTBEAT_MS
\* --------------------------------------------------------------------- C22
\* C22: a session bridge call that timed out, or whose reply could not be
\* parsed, has returned a value with success = false and a non-empty
\* error; it has not thrown.
C22_FailuresAreValues ==
    (bReq.pc = "done" /\ bReq.cause \in {"timeout", "malformed"}) =>
        /\ bReq.how = "returned"
        /\ ~bReq.value.success
        /\ bReq.value.error # ""
C26_OnlyChannel ==
    (hGet # NoGet /\ hGet.query.channel # <<>>) =>
        \A i \in 1..Len(hGet.body.messages) :
            hGet.body.messages[i].subj = ChannelSubject(hGet.query.channel)

\* --------------------------------------------------------------------- C30
\* C30: a call fetchHistory(limit = L) with L >= 1 that meets no stream
\* error returns the L most recent version-1 envelopes of the channel (all
\* of them when there are fewer), and with before = T > 0 the L most recent
\* of those with ts < T, whatever the length of the channel's log.
C30_MostRecent ==
    LET c == histCall
        Q == { p \in ChannelEnvelopes(c.channel) :
                 c.before = NoBefore \/ p.ts < c.before }
        m == c.res.messages
    IN  (/\ c # NoCall /\ ~c.err
         /\ c.limit >= 1
         /\ c.before = NoBefore \/ c.before > 0)
        => /\ Range(m) \subseteq Q
           /\ Len(m) = Min(c.limit, Cardinality(Q))
           /\ \A q \in Q \ Range(m) : \A i \in 1..Len(m) : q.ts <= m[i].ts
\* --------------------------------------------------------------------- C24
\* C24: no envelope is published outside mesh.channel.*; of the requests
\* that pass the limiter and carry a text within the size limit, one whose
\* subject is DM-style (mesh.dm.*) is answered with the DM rejection (403)
\* and one whose subject is otherwise outside mesh.channel.* with the
\* invalid-subject rejection (400).
C24_SubjectPolicy ==
    /\ \A i \in 1..Len(log) :
          StartsWithPrefix(log[i].subj, <<"mesh", "channel">>)
    /\ \A e \in Emails :
          LET tr == rlTrace[e]
          IN  (/\ tr.n > 0 /\ tr.last # 429
               /\ tr.body.text # <<>>
               /\ Len(tr.body.text) <= MAX_MESSAGE_SIZE)
              => /\ StartsWithPrefix(tr.body.subject, <<"mesh", "dm">>)
                    => tr.last = 403
                 /\ (/\ ~StartsWithPrefix(tr.body.subject, <<"mesh", "dm">>)
                     /\ ~StartsWithPrefix(tr.body.subject, <<"mesh",
                                                             "channel">>))
                    => tr.last = 400

\* --------------------------------------------------------------------- C25
\* C25: a request of a signed-in sender that is over the rate limit, has no
\* text, a text over the size limit or a subject outside mesh.channel.*
\* is answered with a rejection and changes neither the stream nor the
\* membership calls to run nor the members bucket; and the bucket holds
\* records only for the senders and channels of the envelopes in the stream.
C25_RejectedNoEffect ==
    /\ [](\A k \in LiveKeys(membersKv) :
            \E i \in 1..Len(log) :
                k = MemberKey(ChannelOf(log[i].subj), log[i].from))
    /\ [][\A e \in Emails :
            (/\ rlTrace'[e] # rlTrace[e]
             /\ \/ rlTrace'[e].n > RATE_LIMIT_MAX
                \/ ~WellFormed(rlTrace'[e].body))
            => /\ postStatus' \in {400, 403, 429}
               /\ log' = log
               /\ mSpawned' = mSpawned
               /\ membersKv' = membersKv]_vars

\* A well-formed request was rejected by the limiter, and the stream holds
\* the accepted envelopes only; the sender of one has its record.
C25_Witness ==
    \E e \in Emails :
        /\ rlTrace[e].n > RATE_LIMIT_MAX
        /\ rlTrace[e].last = 429
        /\ WellFormed(rlTrace[e].body)
        /\ Len(log) = RATE_LIMIT_MAX
        /\ LiveKeys(membersKv) # {}
\* --------------------------------------------------------------------- C27
\* The stream without its entries that are not JSON or not of version 1.
Clean(stream) == SelectSeqBy(stream, { p \in Range(stream) : p.kind = "v1" })

\* What a search that examines every entry of `stream` on the subject
\* returns.
SearchOf(stream, query, subject) ==
    LET hits == SelectSeqBy(SelectSeqBy(stream, { p \in Range(stream) :
                                                    p.subj = subject }),
                            { p \in Range(stream) :
                                p.kind = "v1"
                                /\ ContainsCI(p.text, query) })
    IN  [results |-> SortByTs(SubSeq(hits, 1, Min(Len(hits), MAX_RESULTS))),
         total |-> Len(hits),
         truncated |-> Len(hits) > MAX_RESULTS]

\* The result of each finished scan is the one the same scan gives on the
\* stream without its malformed entries, for the channels in `within`.
ScansAsIfClean(within) ==
    /\ (histCall # NoCall /\ ~histCall.err /\ histCall.channel \in within)
          => histCall.res = fetchHistory(Clean(log), histCall.before,
                                         histCall.limit, histCall.channel,
                                         FALSE)
    /\ (sPc = "done" /\ sTrace.ended = "drained"
          /\ ChannelOf(sArgs.channel) \in within)
          => sRet = SearchOf(Clean(log), sArgs.query, sArgs.channel)
    /\ \A p \in Procs :
          (rReq[p].via = "seed" /\ rReq[p].pc = "done" /\ rReq[p].scan # <<>>
             /\ rReq[p].ch \in within)
          => /\ Range(rReq[p].adds)
                   = Senders(SeedScan(Clean(log), rReq[p].ch))
             /\ LiveKeys(membersKv)
                   = { MemberKey(rReq[p].ch, n) :
                         n \in Senders(SeedScan(Clean(log), rReq[p].ch)) }

\* C27 (as stated): a history, search or seeding scan gives the result it
\* would give on the log without the entries that are not JSON or not of
\* version 1.
C27_AsIfAbsent == ScansAsIfClean(Channels)

\* C27 (amended): the same, for a channel whose log, malformed entries
\* included, fits within the per-call scan cap.
C27_AsIfAbsentWithinCap ==
    ScansAsIfClean({ c \in Channels : FitsCap(c) })

\* A history call on a channel within the cap returned envelopes from
\* before and from after a malformed entry of the channel.
C27_Witness ==
    /\ histCall # NoCall /\ ~histCall.err
    /\ FitsCap(histCall.channel)
    /\ \E i, j, k \in 1..Len(log) :
          /\ i < j /\ j < k
          /\ log[j].subj = ChannelSubject(histCall.channel)
          /\ log[j].kind # "v1"
          /\ log[i] \in Range(histCall.res.messages)
          /\ log[k] \in Range(histCall.res.messages)
\* --------------------------------------------------------------------- C28
\* C28: the client's message list holds version-1 envelopes only: a payload
\* delivered on the live channel that is not JSON, or that parses but has
\* another version, is never appended.
C28_OnlyEnvelopes ==
    \A i \in 1..Len(cMessages) : cMessages[i].kind = "v1"
\* --------------------------------------------------------------------- C29
\* C29: a search that has returned truncated = false has examined every
\* entry of the subject in the stream and returned every envelope of it
\* that contains the query.
C29_TruncatedSurfaced ==
    (sPc = "done" /\ ~sRet.truncated) =>
        /\ { p \in Range(log) : p.subj = sArgs.channel }
              \subseteq Range(sTrace.examined)
        /\ Range(sRet.results) = SearchMatches
\* --------------------------------------------------------------------- C31
\* C31: the response to a history request that met no stream error holds
\* at most `limit` messages (the default when the query gives none), for
\* every limit >= 0, and none when the query says before = 0.
C31_WithinLimit ==
    (hGet # NoGet /\ hGet.fault = "none") =>
        /\ Len(hGet.body.messages)
              <= (IF hGet.query.limit = NoLimit THEN PageLimit
                  ELSE hGet.query.limit)
        /\ hGet.query.before = 0 => hGet.body.messages = <<>>
\* --------------------------------------------------------------------- C32
\* C32: a key of the members bucket that holds a record keeps that record
\* through every step of the addChannelMember calls, however they
\* interleave (only a removal takes it away).
C32_AddKeepsRecord ==
    [][\A k \in MemberKeys :
          (membersKv[k] # Absent /\ membersKv'[k] # Absent)
              => membersKv'[k] = membersKv[k]]_vars
\* --------------------------------------------------------------------- C33
\* C33: once the presence snapshot load is over and while no agent has put,
\* deleted or published anything since, an agent whose map entry no live
\* update has touched is in the presence map only if the bucket holds a
\* record for it (an entry that only the cache holds is not shown).
C33_OnlyBucketRecords ==
    (pTask.pc \in {"watchOpen", "watch"} /\ evGen = 0) =>
        \A a \in Agents :
            (/\ presence[a] # NoInfo
             /\ \A i \in DOMAIN pHist[a] : pHist[a][i].src = "snapshot")
                => presenceKv[a] # NoValue
\* --------------------------------------------------------------------- C34
\* C34: when the bucket is empty again and every watch entry has been
\* applied, no entry that only watch entries have written is left in the
\* presence map: each delete took away what the puts on its key created,
\* whatever name the payloads carried.
C34_DeleteRemovesPut ==
    (/\ pTask.pc = "watch"
     /\ pWatchQ = <<>>
     /\ \A k \in Agents : presenceKv[k] = NoValue) =>
        \A a \in Agents :
            (/\ pHist[a] # <<>>
             /\ \A i \in DOMAIN pHist[a] : pHist[a][i].src = "watch")
                => presence[a] = NoInfo
\* --------------------------------------------------------------------- C35
\* The publishes of a sender that POST send accepted (the envelopes it
\* appended to the stream) whose time lies in the 60 s from `from` on.
AcceptedIn(user, from) ==
    { i \in DOMAIN log :
        /\ log[i].from = <<SenderName(user.name)>>
        /\ log[i].ts >= from
        /\ log[i].ts < from + RATE_LIMIT_WINDOW \div 1000 }

\* C35: in every interval of 60 seconds, wherever it starts, at most
\* RATE_LIMIT_MAX publishes of a sender are accepted.
C35_SlidingWindow ==
    \A u \in Users : \A i \in DOMAIN log :
        Cardinality(AcceptedIn(u, log[i].ts)) <= RATE_LIMIT_MAX
\* --------------------------------------------------------------------- C36
\* C36: the message list shown for the active channel never holds two
\* entries with the same envelope id.
C36_NoDuplicateIds ==
    \A i, j \in 1..Len(FilteredMessages) :
        i < j => FilteredMessages[i].id # FilteredMessages[j].id
\* --------------------------------------------------------------------- C37
\* C37: at most one heartbeat timer is active at any time; and when the
\* last call was a disconnectNats that has returned and no connect or
\* drain is pending, there is no heartbeat timer, no subscription and no
\* connection, and the status is disconnected.
C37_CleanAfterDisconnect ==
    /\ Len(cTimers) <= 1
    /\ (hbTrace.off /\ cConn \notin {"connecting", "draining"}) =>
          /\ cTimers = <<>>
          /\ cSubs = <<>>
          /\ cConn = "none"
          /\ cStatus = "disconnected"
\* --------------------------------------------------------------------- C38
\* The channel a key was written for: `${channel}.${name}` without the
\* name (the names explored hold no dot).
KeyChannel(key) == SubSeq(key, 1, Len(key) - 1)

\* C38: a getChannelMembers(C) that no put or delete ran alongside returns
\* exactly the records held under the keys written for channel C, one
\* entry per key, and no record written for another channel.
C38_ChannelIsolation ==
    \A p \in Procs :
        LET rec == mProc[p]
            own == { k \in LiveKeys(rec.pre) : KeyChannel(k) = rec.ch }
        IN  (rec.op = "list" /\ rec.done /\ rec.ops = <<>>)
            => /\ Range(rec.members) = { rec.pre[k] : k \in own }
               /\ Len(rec.members) = Cardinality(own)
\* --------------------------------------------------------------------- C39
\* C39: the server holds at most one open connection, at most one
\* connect is pending at a time, and the callers that hold a connection
\* that is still open hold the same one.
C39_OneConnection ==
    /\ Cardinality(openConns) <= 1
    /\ Cardinality({ p \in Procs : gcCall[p].pc = "connect" }) <= 1
    /\ \A p, q \in Procs :
          (/\ gcCall[p].pc = "done" /\ gcCall[p].got \in openConns
           /\ gcCall[q].pc = "done" /\ gcCall[q].got \in openConns)
             => gcCall[p].got = gcCall[q].got
\* --------------------------------------------------------------------- C40
\* C40: a step changes the limiter entry of a sender only if it is an
\* authenticated send attempt of that sender, and every such attempt,
\* whatever its status, adds one to the count; the count restarts at one
\* (with a new resetAt) exactly when the attempt arrives strictly after
\* resetAt or there is no entry yet.
C40_CountsEveryAttempt ==
    [][\A e \in Emails :
          LET old == rateLimitMap[e]
              new == rateLimitMap'[e]
              fresh == old = NoEntry \/ now > old.resetAt
          IN  IF rlTrace'[e] # rlTrace[e]
              THEN /\ postStatus' # 401
                   /\ new.count = IF fresh THEN 1 ELSE old.count + 1
                   /\ new.resetAt = IF fresh THEN now + RATE_LIMIT_WINDOW
                                     ELSE old.resetAt
              ELSE new = old]_vars

\* A sender over the limit whose rejected attempts were counted, at the
\* last instant of the window (no reset yet), after an attempt rejected
\* for its body was counted too.
C40_Witness ==
    \E e \in Emails :
        /\ rateLimitMap[e].count > RATE_LIMIT_MAX
        /\ rlTrace[e].last = 429
        /\ now = rateLimitMap[e].resetAt
        /\ \E f \in Emails \ {e} :
              rlTrace[f].last = 400 /\ rateLimitMap[f].count = 1
====
